---- MODULE Spec2Model ----
(***************************************************************************)
(* Model of the DiaGuru schedule-capture edge function                     *)
(* (supabase/functions/schedule-capture/index.ts and scheduling-core.ts).  *)
(* Instants are minutes since 00:00 UTC of day 0; the runtime zone is UTC. *)
(***************************************************************************)
EXTENDS Integers, Sequences, FiniteSets, TLC

\* ------------------------------------------------------------------------
\* Program constants (scheduling-core.ts)
BUFFER_MINUTES == 10
COMPRESSED_BUFFER_MINUTES == 5
SEARCH_DAYS == 7
DAY_END_HOUR == 22
WORKING_START_HOUR == 8
SLOT_INCREMENT_MINUTES == 15
STABILITY_WINDOW_MINUTES == 30
DEFAULT_MIN_CHUNK_MINUTES == SLOT_INCREMENT_MINUTES
TARGET_CHUNK_MINUTES == 50
MINUTES_PER_DAY == 1440
MIN_DURATION_MINUTES == 5
MAX_DURATION_MINUTES == 480
DEFAULT_DURATION_MINUTES == 30
GRID_CANDIDATE_LIMIT == 6
MAX_COMBINATION_SIZE == 4
COMBINATION_LIMIT == 64
START_TOLERANCE_MINUTES == 60
SOFT_START_TOLERANCE_MINUTES == 120
FIRST_CURSOR_MINUTES == 5

\* null of the source: an absent instant, and an absent event id
NULL == 0 - 1
NoEvent == 0 - 1
NoSlot == [start |-> NULL, end |-> NULL]
IsSlot(s) == s.start # NULL

Max(a, b) == IF a >= b THEN a ELSE b
Min(a, b) == IF a <= b THEN a ELSE b
CeilDiv(a, b) == (a + b - 1) \div b

\* ------------------------------------------------------------------------
\* Time and zone utilities
OffsetMinutes == 0

addMinutes(t, m) == t + m
addDays(t, d) == t + d * MINUTES_PER_DAY
toLocalDate(t) == t + OffsetMinutes
toUtcDate(t) == t - OffsetMinutes
MinuteOfDay(t) == t % MINUTES_PER_DAY
StartOfLocalDay(t) == t - MinuteOfDay(t)

startOfDayOffset(t) ==
    toUtcDate(StartOfLocalDay(toLocalDate(t)) + WORKING_START_HOUR * 60)

isBeforeDayStart(t) ==
    MinuteOfDay(toLocalDate(t)) < WORKING_START_HOUR * 60

isAfterDayEnd(t) ==
    MinuteOfDay(toLocalDate(t)) > DAY_END_HOUR * 60

isSlotWithinWorkingWindow(slot) ==
    ~isBeforeDayStart(slot.start) /\ ~isAfterDayEnd(slot.end)

\* ------------------------------------------------------------------------
\* Busy intervals
isSlotFree(s, e, intervals) ==
    \A iv \in intervals : ~(s < iv.end /\ e > iv.start)

computeBusyIntervals(events, bufferMinutes) ==
    { [start |-> addMinutes(ev.start, 0 - bufferMinutes),
       end |-> addMinutes(ev.end, bufferMinutes)] : ev \in events }

registerInterval(intervals, slot) ==
    intervals \cup { [start |-> addMinutes(slot.start, 0 - BUFFER_MINUTES),
                      end |-> addMinutes(slot.end, BUFFER_MINUTES)] }

isSlotFeasible(slot, intervals, enforceWorkingWindow) ==
    /\ ~(enforceWorkingWindow /\ isBeforeDayStart(slot.start))
    /\ ~(enforceWorkingWindow /\ isAfterDayEnd(slot.end))
    /\ isSlotFree(slot.start, slot.end, intervals)

\* ------------------------------------------------------------------------
\* Slot search
RECURSIVE SweepUntil(_, _, _, _)
\* the searchWindow closure / the continuous sweep of findNextAvailableSlot
SweepUntil(candidateStart, limit, durationMinutes, intervals) ==
    IF candidateStart + durationMinutes > limit THEN NoSlot
    ELSE IF isSlotFree(candidateStart, candidateStart + durationMinutes, intervals)
         THEN [start |-> candidateStart, end |-> candidateStart + durationMinutes]
         ELSE SweepUntil(addMinutes(candidateStart, SLOT_INCREMENT_MINUTES), limit,
                         durationMinutes, intervals)

RECURSIVE SweepWorkingDay(_, _, _)
\* the while(true) loop of one day in findNextAvailableSlot
SweepWorkingDay(candidateStart, durationMinutes, intervals) ==
    IF isAfterDayEnd(candidateStart) THEN NoSlot
    ELSE IF isAfterDayEnd(addMinutes(candidateStart, durationMinutes)) THEN NoSlot
    ELSE IF isSlotFree(candidateStart, addMinutes(candidateStart, durationMinutes), intervals)
         THEN [start |-> candidateStart, end |-> addMinutes(candidateStart, durationMinutes)]
         ELSE SweepWorkingDay(addMinutes(candidateStart, SLOT_INCREMENT_MINUTES),
                              durationMinutes, intervals)

RECURSIVE SweepDays(_, _, _, _, _)
SweepDays(day, cursor, referenceNow, durationMinutes, intervals) ==
    IF day >= SEARCH_DAYS THEN NoSlot
    ELSE LET dayStart == startOfDayOffset(addDays(referenceNow, day))
             found == SweepWorkingDay(Max(dayStart, cursor), durationMinutes, intervals)
         IN IF IsSlot(found) THEN found
            ELSE SweepDays(day + 1, startOfDayOffset(addDays(referenceNow, day + 1)),
                           referenceNow, durationMinutes, intervals)

RECURSIVE SweepBands(_, _, _, _, _, _)
\* bands: a sequence of [start |-> hour, end |-> hour]; one band list per day
SweepBands(day, bandIndex, bands, cursor, referenceNow, args) ==
    IF day >= SEARCH_DAYS THEN NoSlot
    ELSE IF bandIndex > Len(bands)
    THEN SweepBands(day + 1, 1, bands, cursor, referenceNow, args)
    ELSE LET dayStartMidnight == toUtcDate(StartOfLocalDay(toLocalDate(addDays(referenceNow, day))))
             windowStart == addMinutes(dayStartMidnight, bands[bandIndex].start * 60)
             windowEnd == addMinutes(dayStartMidnight, bands[bandIndex].end * 60)
             effectiveStart == Max(windowStart, cursor)
             found == IF effectiveStart >= windowEnd THEN NoSlot
                      ELSE SweepUntil(effectiveStart, windowEnd, args.duration, args.intervals)
         IN IF IsSlot(found) THEN found
            ELSE SweepBands(day, bandIndex + 1, bands, cursor, referenceNow, args)

findNextAvailableSlot(intervals, durationMinutes, startFrom, referenceNow, enforceWorkingWindow, preferredTimeOfDay) ==
    LET cursor0 == IF startFrom # NULL THEN Max(startFrom, referenceNow)
                   ELSE addMinutes(referenceNow, FIRST_CURSOR_MINUTES)
        banded == IF Len(preferredTimeOfDay) > 0
                  THEN SweepBands(0, 1, preferredTimeOfDay, cursor0, referenceNow,
                                  [duration |-> durationMinutes, intervals |-> intervals])
                  ELSE NoSlot
        cursor1 == IF isBeforeDayStart(cursor0) THEN startOfDayOffset(referenceNow)
                   ELSE cursor0
    IN IF IsSlot(banded) THEN banded
       ELSE IF ~enforceWorkingWindow
       THEN SweepUntil(cursor0, cursor0 + SEARCH_DAYS * 24 * 60, durationMinutes, intervals)
       ELSE SweepDays(0, cursor1, referenceNow, durationMinutes, intervals)

findLatePlacementSlot(intervals, durationMinutes, referenceNow, startFrom, enforceWorkingWindow) ==
    findNextAvailableSlot(intervals, durationMinutes, Max(startFrom, referenceNow),
                          referenceNow, enforceWorkingWindow, << >>)

RECURSIVE SweepBeforeDeadline(_, _, _, _, _)
SweepBeforeDeadline(candidateStart, deadline, durationMinutes, intervals, enforce) ==
    IF candidateStart > deadline - durationMinutes THEN NoSlot
    ELSE LET candidateEnd == candidateStart + durationMinutes
             next0 == addMinutes(candidateStart, SLOT_INCREMENT_MINUTES)
             next1 == IF enforce /\ isAfterDayEnd(next0)
                      THEN startOfDayOffset(addDays(next0, 1)) ELSE next0
         IN IF candidateEnd > deadline THEN NoSlot
            ELSE IF /\ (~enforce \/ ~isBeforeDayStart(candidateStart))
                    /\ (~enforce \/ ~isAfterDayEnd(candidateEnd))
                    /\ isSlotFree(candidateStart, candidateEnd, intervals)
                 THEN [start |-> candidateStart, end |-> candidateEnd]
                 ELSE SweepBeforeDeadline(next1, deadline, durationMinutes, intervals, enforce)

findSlotBeforeDeadline(intervals, durationMinutes, deadline, referenceNow, enforce) ==
    IF deadline - durationMinutes < referenceNow THEN NoSlot
    ELSE LET c0 == referenceNow
             c1 == IF enforce /\ isBeforeDayStart(c0) THEN startOfDayOffset(c0) ELSE c0
             c2 == IF enforce /\ isAfterDayEnd(c1)
                   THEN startOfDayOffset(addDays(c1, 1)) ELSE c1
         IN SweepBeforeDeadline(c2, deadline, durationMinutes, intervals, enforce)

RECURSIVE SweepWindow(_, _, _, _, _)
SweepWindow(candidateStart, windowEnd, durationMinutes, intervals, enforce) ==
    IF candidateStart + durationMinutes > windowEnd THEN NoSlot
    ELSE LET candidateEnd == candidateStart + durationMinutes
         IN IF /\ (~enforce \/ ~isBeforeDayStart(candidateStart))
               /\ (~enforce \/ ~isAfterDayEnd(candidateEnd))
               /\ isSlotFree(candidateStart, candidateEnd, intervals)
            THEN [start |-> candidateStart, end |-> candidateEnd]
            ELSE SweepWindow(addMinutes(candidateStart, SLOT_INCREMENT_MINUTES), windowEnd,
                             durationMinutes, intervals, enforce)

findSlotWithinWindow(intervals, durationMinutes, windowStart, windowEnd, referenceNow, enforce) ==
    SweepWindow(Max(windowStart, referenceNow), windowEnd, durationMinutes, intervals,
                enforce)

\* ------------------------------------------------------------------------
\* Constraint resolver
\* a normalization that knows no alias
normalizeConstraintTypeWithoutAliases(value) ==
    IF value \in {"deadline_time", "deadline_date", "start_time", "window"} THEN value
    ELSE "flexible"

normalizeConstraintType(value) ==
    IF value \in {"deadline_time", "deadline_date", "start_time", "window"} THEN value
    ELSE IF value \in {"deadline", "end_time"} THEN "deadline_time"
    ELSE "flexible"

\* constraint_date is the instant of 00:00Z of the date, or NULL
computeDateDeadline(dateInput) ==
    IF dateInput = NULL THEN NULL
    ELSE toUtcDate(StartOfLocalDay(toLocalDate(dateInput)) + DAY_END_HOUR * 60)

DEADLINE_RULES(type, capture) ==
    CASE type = "deadline_time" -> capture.constraint_time
      [] type = "deadline_date" -> computeDateDeadline(capture.constraint_date)
      [] type = "window" -> capture.constraint_end
      [] OTHER -> NULL

resolveDeadlineFromCapture(capture) ==
    IF capture.deadline_at # NULL THEN capture.deadline_at
    ELSE DEADLINE_RULES(normalizeConstraintType(capture.constraint_type), capture)

sanitizedEstimatedMinutes(capture) ==
    Max(MIN_DURATION_MINUTES,
        Min(IF capture.estimated_minutes = NULL THEN DEFAULT_DURATION_MINUTES
            ELSE capture.estimated_minutes, MAX_DURATION_MINUTES))

\* parsePreferredSlot without the repair of an end that is not after the start
parsePreferredSlotKeepingEnd(startIso, endIso, fallbackMinutes) ==
    IF startIso = NULL THEN NoSlot
    ELSE LET end0 == IF endIso # NULL THEN endIso ELSE addMinutes(startIso, fallbackMinutes)
         IN [start |-> startIso, end |-> end0]

parsePreferredSlot(startIso, endIso, fallbackMinutes) ==
    IF startIso = NULL THEN NoSlot
    ELSE LET end0 == IF endIso # NULL THEN endIso ELSE addMinutes(startIso, fallbackMinutes)
             end1 == IF end0 <= startIso
                     THEN addMinutes(startIso, Max(fallbackMinutes, MIN_DURATION_MINUTES))
                     ELSE end0
         IN [start |-> startIso, end |-> end1]

computeSchedulingPlan(capture, durationMinutes, referenceNow) ==
    LET constraintType == normalizeConstraintType(capture.constraint_type)
        deadline == resolveDeadlineFromCapture(capture)
        targetStart == IF capture.constraint_time # NULL THEN capture.constraint_time
                       ELSE capture.original_target_time
        flexible == [mode |-> "flexible", preferredSlot |-> NoSlot, deadline |-> NULL,
                     window |-> NoSlot]
    IN IF constraintType \in {"deadline_time", "deadline_date"} /\ deadline # NULL
       THEN [mode |-> "deadline", preferredSlot |-> NoSlot, deadline |-> deadline,
             window |-> NoSlot]
       ELSE IF constraintType = "start_time" /\ targetStart # NULL
       THEN [mode |-> "start",
             preferredSlot |-> [start |-> Max(targetStart, referenceNow),
                                end |-> Max(targetStart, referenceNow) + durationMinutes],
             deadline |-> NULL, window |-> NoSlot]
       ELSE IF /\ constraintType = "window"
               /\ capture.constraint_time # NULL /\ capture.constraint_end # NULL
               /\ capture.constraint_end > capture.constraint_time
       THEN [mode |-> "window", preferredSlot |-> NoSlot, deadline |-> NULL,
             window |-> [start |-> capture.constraint_time, end |-> capture.constraint_end]]
       ELSE flexible

adjustSlotToReference(slot, referenceNow) ==
    IF slot.start >= referenceNow THEN slot
    ELSE [start |-> referenceNow, end |-> referenceNow + (slot.end - slot.start)]

scheduleWithPlan(plan, durationMinutes, busyIntervals, referenceNow, isSoftStart, enforceWorkingWindow, preferredTimeOfDay) ==
    LET adjusted == adjustSlotToReference(plan.preferredSlot, referenceNow)
        deadlineSlot == findSlotBeforeDeadline(busyIntervals, durationMinutes, plan.deadline,
                                               referenceNow, enforceWorkingWindow)
        windowSlot == findSlotWithinWindow(busyIntervals, durationMinutes, plan.window.start,
                                           plan.window.end, referenceNow, enforceWorkingWindow)
        toleranceMinutes == IF isSoftStart THEN SOFT_START_TOLERANCE_MINUTES
                            ELSE START_TOLERANCE_MINUTES
        startSlot == findSlotWithinWindow(busyIntervals, durationMinutes,
                                          plan.preferredSlot.start,
                                          addMinutes(plan.preferredSlot.start, toleranceMinutes),
                                          referenceNow, enforceWorkingWindow)
    IN IF /\ IsSlot(plan.preferredSlot)
          /\ isSlotFeasible(adjusted, busyIntervals, enforceWorkingWindow)
       THEN adjusted
       ELSE IF plan.mode = "deadline" /\ plan.deadline # NULL /\ IsSlot(deadlineSlot)
       THEN deadlineSlot
       ELSE IF plan.mode = "window" /\ IsSlot(plan.window) /\ IsSlot(windowSlot)
       THEN windowSlot
       ELSE IF plan.mode = "start" /\ IsSlot(plan.preferredSlot) /\ IsSlot(startSlot)
       THEN startSlot
       ELSE findNextAvailableSlot(busyIntervals, durationMinutes, NULL, referenceNow,
                                  enforceWorkingWindow, preferredTimeOfDay)

\* the smallest of the end bounds that are set; NULL when none is
MinEndBound(capture) ==
    LET candidates == { b \in { capture.deadline_at, capture.window_end,
                                capture.constraint_end,
                                IF capture.constraint_type = "deadline_time"
                                THEN capture.constraint_time ELSE NULL } : b # NULL }
    IN IF candidates = {} THEN NULL
       ELSE CHOOSE m \in candidates : \A o \in candidates : m <= o

isSlotWithinConstraints(capture, slot) ==
    IF MinEndBound(capture) = NULL THEN TRUE
    ELSE IF /\ capture.constraint_type = "start_time"
            /\ capture.window_start # NULL /\ capture.window_end # NULL
    THEN capture.window_start <= slot.start /\ slot.start <= capture.window_end
    ELSE slot.end <= MinEndBound(capture)

hasActiveFreeze(capture, referenceNow) ==
    capture.freeze_until # NULL /\ capture.freeze_until > referenceNow

withinStabilityWindow(capture, referenceNow) ==
    /\ capture.planned_start # NULL
    /\ capture.planned_start - referenceNow <= STABILITY_WINDOW_MINUTES

canCaptureOverlap(capture) ==
    /\ ~capture.blocking
    /\ capture.start_flexibility # "hard"
    /\ ~capture.cannot_overlap

readCannotOverlapFromNotes(capture) == capture.cannot_overlap

detectRoutineKind(capture) ==
    CASE capture.task_type_hint = "routine.sleep" -> "sleep"
      [] capture.task_type_hint = "routine.meal" -> "meal"
      [] OTHER -> "none"

shouldEnforceWorkingWindow(capture) == detectRoutineKind(capture) = "none"

derivePreferredTimeOfDayBands(capture) ==
    CASE capture.time_pref_time_of_day = "morning" -> << [start |-> 8, end |-> 12] >>
      [] capture.time_pref_time_of_day = "afternoon" -> << [start |-> 12, end |-> 17] >>
      [] capture.time_pref_time_of_day = "evening" -> << [start |-> 17, end |-> 21] >>
      [] capture.time_pref_time_of_day = "night" -> << [start |-> 21, end |-> 26] >>
      [] OTHER -> << >>

\* ------------------------------------------------------------------------
\* Calendar events: [id, start, end, diaGuru, capture_id, etag]
EventBefore(a, b) == a.start < b.start \/ (a.start = b.start /\ a.id < b.id)

RECURSIVE SortEvents(_)
\* listEvents returns the events ordered by start time
SortEvents(events) ==
    IF events = {} THEN << >>
    ELSE LET first == CHOOSE e \in events : \A o \in events \ {e} : EventBefore(e, o)
         IN << first >> \o SortEvents(events \ {first})

SeqToSet(s) == { s[i] : i \in 1..Len(s) }

collectConflictingEvents(slot, events, referenceNow) ==
    { ev \in events :
        LET inProgress == ev.start <= referenceNow /\ referenceNow < ev.end
            beforeBuffer == IF inProgress THEN 0 ELSE BUFFER_MINUTES
            afterBuffer == IF inProgress THEN 0 ELSE BUFFER_MINUTES
        IN slot.start < addMinutes(ev.end, afterBuffer)
           /\ slot.end > addMinutes(ev.start, 0 - beforeBuffer) }

IsExternalConflict(ev) == ~ev.diaGuru
IsDiaGuruConflict(ev) == ev.diaGuru /\ ev.capture_id # NULL

\* index tuples of generateCombinations: strictly increasing, in lexicographic order
IncreasingTuples(n, size) ==
    { t \in [1..size -> 1..n] : \A i \in 1..(size - 1) : t[i] < t[i + 1] }

LexLess(a, b) ==
    \E k \in DOMAIN a : a[k] < b[k] /\ \A j \in 1..(k - 1) : a[j] = b[j]

generateCombinations(n, size, limit) ==
    LET all == IncreasingTuples(n, size)
    IN { t \in all : Cardinality({ o \in all : LexLess(o, t) }) < limit }

ComboFeasible(slot, events, candidateIds, combo, buffer) ==
    LET removalSet == { candidateIds[combo[i]] : i \in DOMAIN combo }
        filteredEvents == { ev \in events : ev.id \notin removalSet }
    IN isSlotFeasible(slot, computeBusyIntervals(filteredEvents, buffer), TRUE)

RECURSIVE SelectBySize(_, _, _, _, _)
SelectBySize(size, slot, events, candidateIds, buffer) ==
    IF size > Min(Len(candidateIds), MAX_COMBINATION_SIZE) THEN {}
    ELSE LET combos == generateCombinations(Len(candidateIds), size, COMBINATION_LIMIT)
             First(feasible) ==
                 IF feasible # {}
                 THEN LET t == CHOOSE x \in feasible :
                                   \A o \in feasible \ {x} : LexLess(x, o)
                      IN { candidateIds[t[i]] : i \in DOMAIN t }
                 ELSE SelectBySize(size + 1, slot, events, candidateIds, buffer)
         IN First({ t \in combos : ComboFeasible(slot, events, candidateIds, t, buffer) })

\* the ids to remove, or {} for null
selectMinimalPreemptionSet(slot, events, candidateIds, allowCompressedBuffer) ==
    IF Len(candidateIds) = 0 THEN {}
    ELSE LET Compressed(full) ==
                 IF full # {} THEN full
                 ELSE IF allowCompressedBuffer
                 THEN SelectBySize(1, slot, events, candidateIds, COMPRESSED_BUFFER_MINUTES)
                 ELSE {}
         IN Compressed(SelectBySize(1, slot, events, candidateIds, BUFFER_MINUTES))

estimateConflictMinutes(ev) == ev.end - ev.start

\* ------------------------------------------------------------------------
\* Chunk planner
\* rounding down to the increment
roundDownToIncrement(value, increment) ==
    IF increment <= 0 THEN value ELSE (value \div increment) * increment

roundUpToIncrement(value, increment) ==
    IF increment <= 0 THEN value ELSE CeilDiv(value, increment) * increment

alignToSlotIncrement(t) ==
    IF t % SLOT_INCREMENT_MINUTES = 0 THEN t
    ELSE t + (SLOT_INCREMENT_MINUTES - (t % SLOT_INCREMENT_MINUTES))

RECURSIVE ShrinkChunkCount(_, _, _)
ShrinkChunkCount(chunkCount, totalIncrements, minChunkIncrements) ==
    IF chunkCount > 1 /\ totalIncrements \div chunkCount < minChunkIncrements
    THEN ShrinkChunkCount(chunkCount - 1, totalIncrements, minChunkIncrements)
    ELSE chunkCount

\* maxSplits = NULL stands for null
generateChunkDurations(totalMinutesIn, minChunkMinutesIn, maxSplits, allowSplitting) ==
    LET increment == SLOT_INCREMENT_MINUTES
        totalMinutes == Max(increment, roundUpToIncrement(totalMinutesIn, increment))
        minChunkMinutes ==
            Max(increment,
                roundUpToIncrement(IF minChunkMinutesIn = NULL THEN DEFAULT_MIN_CHUNK_MINUTES
                                   ELSE minChunkMinutesIn, increment))
        splitsSet == maxSplits # NULL /\ maxSplits > 0
        \* the chunks, chunkCount of them, the first remainder one increment longer
        Chunks(totalIncrements, minChunkIncrements, chunkCount) ==
            LET baseIncrements == Max(totalIncrements \div chunkCount, minChunkIncrements)
                remainder == totalIncrements - (totalIncrements \div chunkCount) * chunkCount
            IN [ i \in 1..chunkCount |->
                   (baseIncrements + (IF i <= remainder THEN 1 ELSE 0)) * increment ]
        Capped(totalIncrements, minChunkIncrements, maxChunksFromDuration, cappedChunks) ==
            IF ~allowSplitting THEN << totalMinutes >>
            ELSE IF maxChunksFromDuration <= 1 THEN << totalMinutes >>
            ELSE IF cappedChunks <= 1 THEN << totalMinutes >>
            ELSE Chunks(totalIncrements, minChunkIncrements,
                        ShrinkChunkCount(
                            Max(1, Min(cappedChunks,
                                       CeilDiv(totalIncrements,
                                               Max(minChunkIncrements,
                                                   CeilDiv(TARGET_CHUNK_MINUTES,
                                                           increment))))),
                            totalIncrements, minChunkIncrements))
        Counted(totalIncrements, minChunkIncrements) ==
            Capped(totalIncrements, minChunkIncrements,
                   totalIncrements \div minChunkIncrements,
                   IF splitsSet
                   THEN Min(totalIncrements \div minChunkIncrements, Max(1, maxSplits))
                   ELSE totalIncrements \div minChunkIncrements)
    IN Counted(Max(1, CeilDiv(totalMinutes, increment)),
               Max(1, CeilDiv(minChunkMinutes, increment)))

RECURSIVE SweepRange(_, _, _, _, _, _)
SweepRange(candidateStart, rangeStart, limit, durationMinutes, intervals, enforce) ==
    IF candidateStart + durationMinutes > limit THEN NoSlot
    ELSE LET candidateEnd == candidateStart + durationMinutes
             next0 == addMinutes(candidateStart, SLOT_INCREMENT_MINUTES)
             next1 == IF enforce /\ isAfterDayEnd(next0)
                      THEN alignToSlotIncrement(
                               Max(startOfDayOffset(addDays(next0, 1)), rangeStart))
                      ELSE next0
         IN IF /\ (~enforce \/ ~isBeforeDayStart(candidateStart))
               /\ (~enforce \/ ~isAfterDayEnd(candidateEnd))
               /\ isSlotFree(candidateStart, candidateEnd, intervals)
            THEN [start |-> candidateStart, end |-> candidateEnd]
            ELSE IF next0 >= limit THEN NoSlot
            ELSE SweepRange(next1, rangeStart, limit, durationMinutes, intervals, enforce)

findSlotWithinRange(intervals, durationMinutes, rangeStart, rangeEnd, enforce) ==
    SweepRange(alignToSlotIncrement(rangeStart), rangeStart, rangeEnd, durationMinutes,
               intervals, enforce)

RECURSIVE PlaceChunks(_, _, _, _, _, _)
\* the placements (a sequence of slots) or << >> when a chunk does not fit
PlaceChunks(index, chunkDurations, intervals, cursor, rangeEnd, enforce) ==
    IF index > Len(chunkDurations) THEN << >>
    ELSE LET slot == findSlotWithinRange(intervals, chunkDurations[index], cursor, rangeEnd,
                                         enforce)
             rest == PlaceChunks(index + 1, chunkDurations, registerInterval(intervals, slot),
                                 alignToSlotIncrement(slot.end), rangeEnd, enforce)
         IN IF ~IsSlot(slot) THEN << >>
            ELSE IF index < Len(chunkDurations) /\ rest = << >> THEN << >>
            ELSE << slot >> \o rest

placeChunksWithinRange(chunkDurations, busyIntervals, rangeStart, rangeEnd, enforce) ==
    PlaceChunks(1, chunkDurations, busyIntervals, alignToSlotIncrement(rangeStart), rangeEnd,
                enforce)

RECURSIVE ChunkRecords(_, _, _, _, _)
ChunkRecords(index, durations, cursor, slot, flags) ==
    IF index > Len(durations) THEN << >>
    ELSE LET chunkEnd0 == addMinutes(cursor, durations[index])
             chunkEnd == IF chunkEnd0 > slot.end \/ index = Len(durations) THEN slot.end
                         ELSE chunkEnd0
             record == [start |-> cursor, end |-> chunkEnd, prime |-> flags.prime,
                        late |-> flags.late, overlapped |-> flags.overlapped]
         IN IF chunkEnd <= cursor THEN << >>
            ELSE IF chunkEnd >= slot.end THEN << record >>
            ELSE << record >> \o ChunkRecords(index + 1, durations, chunkEnd, slot, flags)

buildChunksForSlot(capture, slot, flags) ==
    LET slotMinutes == Max(SLOT_INCREMENT_MINUTES, Max(1, slot.end - slot.start))
        whole == [start |-> slot.start, end |-> slot.end, prime |-> flags.prime,
                  late |-> flags.late, overlapped |-> flags.overlapped]
        \* the last record is stretched to the end of the slot
        Closed(records) ==
            IF records = << >> THEN << whole >>
            ELSE [ i \in 1..Len(records) |->
                     IF i = Len(records) THEN [records[i] EXCEPT !.end = slot.end]
                     ELSE records[i] ]
    IN Closed(ChunkRecords(1, generateChunkDurations(slotMinutes, capture.min_chunk_minutes,
                                                     capture.max_splits,
                                                     capture.duration_flexibility
                                                         = "split_allowed"),
                           slot.start, slot, flags))

PlainFlags == [prime |-> TRUE, late |-> FALSE, overlapped |-> FALSE]
LateFlags == [prime |-> TRUE, late |-> TRUE, overlapped |-> FALSE]
OverlapFlags(isPrime) == [prime |-> isPrime, late |-> FALSE, overlapped |-> TRUE]

\* ------------------------------------------------------------------------
\* Occupancy grid
CellsPerDay == ((DAY_END_HOUR - WORKING_START_HOUR) * 60) \div SLOT_INCREMENT_MINUTES
GridCells == SEARCH_DAYS * CellsPerDay

GridStart(referenceNow) ==
    LET localNow == toLocalDate(referenceNow)
        localStart == StartOfLocalDay(localNow) + WORKING_START_HOUR * 60
    IN toUtcDate(IF MinuteOfDay(localNow) \div 60 >= DAY_END_HOUR
                 THEN localStart + MINUTES_PER_DAY ELSE localStart)

GridEnd(referenceNow) ==
    GridStart(referenceNow) + (SEARCH_DAYS - 1) * MINUTES_PER_DAY
        + (DAY_END_HOUR - WORKING_START_HOUR) * 60

\* start of the cell with 0-based index i
CellStart(referenceNow, i) ==
    GridStart(referenceNow) + (i \div CellsPerDay) * MINUTES_PER_DAY
        + (i % CellsPerDay) * SLOT_INCREMENT_MINUTES

CellEnd(referenceNow, i) == CellStart(referenceNow, i) + SLOT_INCREMENT_MINUTES

CellStatus(events, referenceNow, i) ==
    LET eventWindows == { ev \in events : ev.end > GridStart(referenceNow)
                                          /\ ev.start < GridEnd(referenceNow) }
        over == { ev \in eventWindows : ev.start < CellEnd(referenceNow, i)
                                        /\ ev.end > CellStart(referenceNow, i) }
    IN IF \E ev \in over : ev.diaGuru THEN "diaguru"
       ELSE IF over # {} THEN "external"
       ELSE "free"

RECURSIVE ScanGrid(_, _, _, _)
\* the for loop of collectGridWindowCandidates from cell i on, with found results so far
ScanGrid(i, found, referenceNow, range) ==
    IF i >= GridCells THEN {}
    ELSE IF CellStart(referenceNow, i) < range.start
    THEN ScanGrid(i + 1, found, referenceNow, range)
    ELSE IF i + range.slotsNeeded - 1 >= GridCells THEN {}
    ELSE IF CellEnd(referenceNow, i + range.slotsNeeded - 1) > range.end THEN {}
    ELSE IF found + 1 >= range.limit THEN { i }
    ELSE { i } \cup ScanGrid(i + 1, found + 1, referenceNow, range)

\* the start indexes of the windows returned
collectGridWindowCandidates(referenceNow, durationMinutes, windowStart, windowEnd, limit) ==
    LET slotsNeeded == Max(1, CeilDiv(durationMinutes, SLOT_INCREMENT_MINUTES))
        rangeStart == Max(Max(GridStart(referenceNow), referenceNow), windowStart)
        rangeEnd == Min(GridEnd(referenceNow), windowEnd)
    IN IF rangeStart >= rangeEnd THEN {}
       ELSE ScanGrid(0, 0, referenceNow,
                     [start |-> rangeStart, end |-> rangeEnd, slotsNeeded |-> slotsNeeded,
                      limit |-> limit])

GridWindowSlot(referenceNow, durationMinutes, i) ==
    [start |-> CellStart(referenceNow, i),
     end |-> CellEnd(referenceNow,
                     i + Max(1, CeilDiv(durationMinutes, SLOT_INCREMENT_MINUTES)) - 1)]

GridWindowHasExternal(events, referenceNow, durationMinutes, i) ==
    \E k \in 0..(Max(1, CeilDiv(durationMinutes, SLOT_INCREMENT_MINUTES)) - 1) :
        CellStatus(events, referenceNow, i + k) = "external"

RECURSIVE FreeMinutesFrom(_, _, _, _, _)
FreeMinutesFrom(i, events, referenceNow, rangeStart, rangeEnd) ==
    IF i >= GridCells THEN 0
    ELSE IF CellStart(referenceNow, i) >= rangeEnd THEN 0
    ELSE LET overlapStart == Max(CellStart(referenceNow, i), rangeStart)
             overlapEnd == Min(CellEnd(referenceNow, i), rangeEnd)
             here == IF overlapEnd > overlapStart /\ CellStatus(events, referenceNow, i) = "free"
                     THEN overlapEnd - overlapStart ELSE 0
         IN here + FreeMinutesFrom(i + 1, events, referenceNow, rangeStart, rangeEnd)

\* freeMinutes of summarizeWindowCapacity
summarizeWindowCapacity(events, referenceNow, rangeStart, rangeEnd) ==
    FreeMinutesFrom(0, events, referenceNow, rangeStart, rangeEnd)

\* ------------------------------------------------------------------------
\* Scheduler configuration and priority (scheduler-config.ts, shared/priority.ts)
schedulerConfig ==
    [overlap |-> [enabled |-> TRUE, maxConcurrency |-> 2, perTaskOverlapFraction |-> 1,
                  dailyBudgetMinutes |-> 120,
                  softCostPerMinute |-> [num |-> 1, den |-> 4]],
     preemption |-> [netGainFloor |-> 0, perMinuteGainFloor |-> 0,
                     maxDisplacedMinutes |-> 480, maxDisplacedTasks |-> 4]]

\* the priority score is an attribute of the capture
priorityForCapture(capture) == capture.priority

RECURSIVE SumSeq(_)
SumSeq(s) == IF s = << >> THEN 0 ELSE Head(s) + SumSeq(Tail(s))

RECURSIVE ProductSeq(_)
ProductSeq(s) == IF s = << >> THEN 1 ELSE Head(s) * ProductSeq(Tail(s))

\* displacements: a sequence of [capture, minutes]
\* net gain times Scale, with Scale the product of the durations involved
evaluatePreemptionNetGain(target, displacements, minutesClaimed) ==
    LET targetMinutes == Max(1, sanitizedEstimatedMinutes(target))
        durations == [ i \in DOMAIN displacements |->
                         Max(1, sanitizedEstimatedMinutes(displacements[i].capture)) ]
        totalDisplacedMinutes == SumSeq([ i \in DOMAIN displacements |->
                                            displacements[i].minutes ])
        \* benefit and cost over the common denominator scale
        Scaled(scale, benefit, cost) ==
            [net |-> benefit - cost, scale |-> scale,
             allowed |-> /\ benefit - cost >= schedulerConfig.preemption.netGainFloor * scale
                         /\ benefit - cost >= schedulerConfig.preemption.perMinuteGainFloor
                                                  * minutesClaimed * scale
                         /\ Len(displacements)
                                <= schedulerConfig.preemption.maxDisplacedTasks
                         /\ totalDisplacedMinutes
                                <= schedulerConfig.preemption.maxDisplacedMinutes]
        Weighed(scale) ==
            Scaled(scale,
                   priorityForCapture(target) * minutesClaimed * (scale \div targetMinutes),
                   SumSeq([ i \in DOMAIN displacements |->
                              priorityForCapture(displacements[i].capture)
                                  * displacements[i].minutes * (scale \div durations[i]) ]))
    IN Weighed(targetMinutes * ProductSeq(durations))

\* ------------------------------------------------------------------------
\* Routine normalization
\* Instants are minutes since 00:00 UTC of day 0.  A timezone is known by its offset at
\* an instant; America/New_York leaves daylight time at 06:00 UTC of day 1.
Timezones == { "UTC", "Asia/Tokyo", "America/New_York", "America/Chicago" }

getTimezoneOffsetMinutes(date, timeZone) ==
    CASE timeZone = "Asia/Tokyo" -> 9 * 60
      [] timeZone = "America/Chicago" -> 0 - 6 * 60
      [] timeZone = "America/New_York" ->
             IF date < MINUTES_PER_DAY + 6 * 60 THEN 0 - 4 * 60 ELSE 0 - 5 * 60
      [] OTHER -> 0

\* the day number of reference on the wall clock of timezone
getLocalDateParts(reference, timezone) ==
    (reference + getTimezoneOffsetMinutes(reference, timezone)) \div MINUTES_PER_DAY

getLocalTimeParts(reference, timezone) ==
    LET local == (reference + getTimezoneOffsetMinutes(reference, timezone)) % MINUTES_PER_DAY
    IN [hour |-> local \div 60, minute |-> local % 60]

computeDayOffset(reference, timezone, targetHour, targetMinute) ==
    LET parts == getLocalTimeParts(reference, timezone)
    IN IF parts.hour > targetHour THEN 1
       ELSE IF parts.hour = targetHour /\ parts.minute >= targetMinute THEN 1
       ELSE 0

buildZonedDateTime(timezone, reference, hour, minute) ==
    LET dayOffset == computeDayOffset(reference, timezone, hour, minute)
        utcGuess == (getLocalDateParts(reference, timezone) + dayOffset) * MINUTES_PER_DAY
                        + hour * 60 + minute
    IN utcGuess - getTimezoneOffsetMinutes(utcGuess, timezone)

isRoutineKind(kind) == kind \in { "routine.sleep", "routine.meal", "routine.chore" }

\* a base reference read from the window the row already carries
resolveSleepBaseReferenceFromWindow(capture, referenceNow) ==
    IF capture.window_start # NULL THEN capture.window_start
    ELSE IF capture.start_target_at # NULL THEN capture.start_target_at
    ELSE IF capture.original_target_time # NULL THEN capture.original_target_time
    ELSE referenceNow + (IF capture.time_pref_day = "tomorrow" THEN 1 ELSE 0) * MINUTES_PER_DAY

resolveSleepBaseReference(capture, referenceNow) ==
    IF capture.start_target_at # NULL THEN capture.start_target_at
    ELSE IF capture.original_target_time # NULL THEN capture.original_target_time
    ELSE referenceNow + (IF capture.time_pref_day = "tomorrow" THEN 1 ELSE 0) * MINUTES_PER_DAY

\* the timezone the options carry, "UTC" when they carry none
OptionTimezone(timezone) == IF timezone = "absent" THEN "UTC" ELSE timezone

\* Intl.DateTimeFormat raises a RangeError for a timezone it does not know
UnknownTimezone(timezone) == OptionTimezone(timezone) \notin Timezones

isSleep(capture) ==
    capture.task_type_hint = "routine.sleep" \/ capture.extraction_kind = "routine.sleep"

isMeal(capture) ==
    capture.task_type_hint = "routine.meal" \/ capture.extraction_kind = "routine.meal"

userLocked(capture) == capture.manual_touch_at # NULL \/ capture.freeze_until # NULL

\* the sleep branch: the window of the night of the base reference, left as it was when
\* building it throws, then the flags of a sleep
NormalizeSleep(capture, referenceNow, timezone) ==
    LET baseRef == resolveSleepBaseReference(capture, referenceNow)
        nightStart == buildZonedDateTime(timezone, baseRef, 22, 0)
        nightEnd == buildZonedDateTime(timezone, baseRef + MINUTES_PER_DAY, 7, 30)
        windowed == IF UnknownTimezone(timezone) THEN capture
                    ELSE [capture EXCEPT
                              !.constraint_type = "window",
                              !.window_start = nightStart, !.window_end = nightEnd,
                              !.constraint_time = nightStart, !.constraint_end = nightEnd,
                              !.deadline_at = IF @ # NULL THEN @ ELSE nightEnd]
    IN [windowed EXCEPT
            !.start_flexibility = "soft", !.duration_flexibility = "fixed",
            !.cannot_overlap = "true",
            !.time_pref_time_of_day = IF @ # "none" THEN @ ELSE "night",
            !.freeze_until = IF userLocked(capture) THEN @ ELSE NULL]

\* the meal branch: 12:00-14:00 of the reference day when a side of the window is missing
NormalizeMeal(capture, referenceNow, timezone) ==
    LET localMealStart == buildZonedDateTime(timezone, referenceNow, 12, 0)
        localMealEnd == buildZonedDateTime(timezone, referenceNow, 14, 0)
        windowed == IF capture.window_start = NULL \/ capture.window_end = NULL
                    THEN [capture EXCEPT
                              !.window_start = localMealStart, !.window_end = localMealEnd,
                              !.constraint_type = "window",
                              !.constraint_time = localMealStart,
                              !.constraint_end = localMealEnd]
                    ELSE capture
    IN [windowed EXCEPT
            !.start_flexibility = IF @ # "none" THEN @ ELSE "soft",
            !.duration_flexibility = IF @ # "none" THEN @ ELSE "fixed",
            !.cannot_overlap = IF @ # "none" THEN @ ELSE "false",
            !.freeze_until = IF userLocked(capture) THEN @ ELSE NULL]

normalizeRoutineCapture(input, referenceNow, timezone) ==
    IF ~(isSleep(input) \/ isMeal(input) \/ isRoutineKind(input.task_type_hint)) THEN input
    ELSE IF isSleep(input) THEN NormalizeSleep(input, referenceNow, OptionTimezone(timezone))
    ELSE IF isMeal(input) THEN NormalizeMeal(input, referenceNow, OptionTimezone(timezone))
    ELSE input

\* the call throws instead of returning: the meal branch builds its window outside any
\* try block
NormalizeThrows(input, timezone) ==
    /\ ~isSleep(input)
    /\ isMeal(input)
    /\ input.window_start = NULL \/ input.window_end = NULL
    /\ UnknownTimezone(timezone)

RoutineRow(hint, kind) ==
    [task_type_hint |-> hint, extraction_kind |-> kind,
     manual_touch_at |-> NULL, freeze_until |-> NULL,
     start_target_at |-> NULL, original_target_time |-> NULL, time_pref_day |-> "none",
     constraint_type |-> "flexible", constraint_time |-> NULL, constraint_end |-> NULL,
     window_start |-> NULL, window_end |-> NULL, deadline_at |-> NULL,
     start_flexibility |-> "none", duration_flexibility |-> "none",
     cannot_overlap |-> "none", time_pref_time_of_day |-> "none"]

IdleRoutine ==
    [capture |-> RoutineRow("none", "none"), referenceNow |-> NULL, timezone |-> "absent",
     normalized |-> FALSE, thrown |-> FALSE]

\* no call of a search function under examination
IdleSearch == [call |-> "none"]

\* ------------------------------------------------------------------------
\* Calendar gateway
SEARCH_HORIZON_MINUTES == SEARCH_DAYS * MINUTES_PER_DAY

listCalendarEvents(cal, timeMin, timeMax) ==
    SortEvents({ ev \in cal : ev.end > timeMin /\ ev.start < timeMax })

getCalendarEvent(cal, eventId) ==
    IF \E ev \in cal : ev.id = eventId
    THEN CHOOSE ev \in cal : ev.id = eventId
    ELSE [id |-> NoEvent, start |-> NULL, end |-> NULL, diaGuru |-> FALSE,
          capture_id |-> NULL, etag |-> NULL]

\* status: "ok" (deleted, or 404), "412" (If-Match failed), "error" (any other failure)
deleteCalendarEvent(cal, eventId, etag, fails) ==
    LET ev == getCalendarEvent(cal, eventId)
    IN IF fails THEN [calendar |-> cal, status |-> "error"]
       ELSE IF ev.id = NoEvent THEN [calendar |-> cal, status |-> "ok"]
       ELSE IF etag # NULL /\ etag # ev.etag THEN [calendar |-> cal, status |-> "412"]
       ELSE [calendar |-> cal \ {ev}, status |-> "ok"]

createCalendarEvent(eventId, capture, slot) ==
    [id |-> eventId, start |-> slot.start, end |-> slot.end, diaGuru |-> TRUE,
     capture_id |-> capture.id, etag |-> eventId]

\* the statuses the provider answers a gateway call with
Statuses == { 200, 401, 404, 412, 500 }

shouldAttemptTokenRefresh(status) == status = 401

isAuthError(status) == status = 401 \/ status = 403

\* whether the gateway function of the operation throws on the answer: any status
\* that is not ok, except the 404 that deleteCalendarEvent and getCalendarEvent return on
OperationThrows(operation, status) ==
    /\ status # 200
    /\ ~(status = 404 /\ operation \in { "delete", "get" })

\* run of createGoogleCalendarActions: the operation is issued with answers[1]; after a
\* 401 and a token refresh that succeeds it is issued again with answers[2].
\*   calls: the times the operation reached the provider; refreshes: the refresh attempts;
\*   status: the answer returned on, or the status of the error thrown
run(operation, answers, refreshToken, refreshOk, needs_reconnect) ==
    LET Returned(calls, refreshes) ==
            [ok |-> TRUE, status |-> answers[calls], answer |-> answers[calls],
             calls |-> calls, refreshes |-> refreshes, needs_reconnect |-> FALSE]
        Thrown(calls, refreshes) ==
            [ok |-> FALSE,
             status |-> IF isAuthError(answers[calls]) THEN 400 ELSE answers[calls],
             answer |-> answers[calls], calls |-> calls, refreshes |-> refreshes,
             needs_reconnect |-> isAuthError(answers[calls]) \/ needs_reconnect]
    IN IF ~OperationThrows(operation, answers[1]) THEN Returned(1, 0)
       ELSE IF shouldAttemptTokenRefresh(answers[1]) /\ refreshToken
       THEN IF refreshOk
            THEN IF ~OperationThrows(operation, answers[2]) THEN Returned(2, 1)
                 ELSE Thrown(2, 1)
            ELSE Thrown(1, 1)
       ELSE Thrown(1, 0)

\* the call site a request went through last
\*   kind: the call site; answer: the provider's last answer to the site's first
\*   operation; deletes, refetches, creates: the deleteEvent, getEvent and createEvent
\*   calls of the site; provider: the times they reached the provider; thrown: the site
\*   leaves an error to the handler
IdleSite ==
    [kind |-> "none", answer |-> 200, deletes |-> 0, refetches |-> 0, creates |-> 0,
     provider |-> 0, thrown |-> FALSE]

\* no request in progress
\*   operations: the call sites the request went through; refreshes: the refresh
\*   attempts its 401 answers led to
IdleGateway ==
    [open |-> FALSE, refreshToken |-> TRUE, needs_reconnect |-> FALSE, operations |-> 0,
     refreshes |-> 0, site |-> IdleSite]

\* ------------------------------------------------------------------------
\* Conflict handling
\* the filters testing the capture id alone, without the diaGuru flag
PartitionConflictsByCaptureId(conflicts) ==
    [external |-> SelectSeq(conflicts, LAMBDA c : c.capture_id = NULL),
     diaGuru |-> SelectSeq(conflicts, LAMBDA c : c.capture_id # NULL)]

\* the externalConflicts / diaGuruConflicts filters of the handler; conflicts is a sequence
PartitionConflicts(conflicts) ==
    [external |-> SelectSeq(conflicts, IsExternalConflict),
     diaGuru |-> SelectSeq(conflicts, IsDiaGuruConflict)]

ConflictSeq(slot, events, referenceNow) ==
    SortEvents(collectConflictingEvents(slot, SeqToSet(events), referenceNow))

\* displacements of the conflicts whose capture is loaded
buildPreemptionDisplacements(conflicts, captureMap) ==
    LET usable == SelectSeq(conflicts, LAMBDA c : c.capture_id # NULL
                                                  /\ estimateConflictMinutes(c) > 0)
    IN [ i \in DOMAIN usable |->
           [capture |-> captureMap[usable[i].capture_id],
            minutes |-> estimateConflictMinutes(usable[i])] ]

\* the movable conflicts, or << >> when a blocker is frozen or stability-locked
\* the movable conflicts when only a freeze locks a blocker
MovableConflictsUnlessFrozen(diaGuruConflicts, captureMap, referenceNow, stabilityExempt) ==
    IF \E i \in DOMAIN diaGuruConflicts :
          hasActiveFreeze(captureMap[diaGuruConflicts[i].capture_id], referenceNow)
    THEN << >>
    ELSE diaGuruConflicts

MovableConflicts(diaGuruConflicts, captureMap, referenceNow, stabilityExempt) ==
    IF \E i \in DOMAIN diaGuruConflicts :
          LET blocker == captureMap[diaGuruConflicts[i].capture_id]
          IN \/ hasActiveFreeze(blocker, referenceNow)
             \/ (withinStabilityWindow(blocker, referenceNow) /\ ~stabilityExempt)
    THEN << >>
    ELSE diaGuruConflicts

\* a comparison that lets every target with a priority pass
outranksNone(capturePriority, movable, captureMap) ==
    \A i \in DOMAIN movable : capturePriority > 0

outranksAll(capturePriority, movable, captureMap) ==
    \A i \in DOMAIN movable :
        capturePriority > priorityForCapture(captureMap[movable[i].capture_id])

\* ------------------------------------------------------------------------
\* State
\* runs: the requests in flight whose reclaim loop is interleaved with another's
\* gateway: the calendar account and the calendar operations of the request in progress
VARIABLES captures, calendar, nextEventId, now, lastReq, runs, gateway, routine, search

vars ==
    << captures, calendar, nextEventId, now, lastReq, runs, gateway, routine, search >>

\* the world a request works on: the store, the calendar, and the request's locals
\*   busy: busyIntervals; deletes: the deleteEvent calls made; queue: rescheduleQueue;
\*   resched: the captures handed to rescheduleCaptures; actions: planActions
World(caps, cal, nextId) ==
    [captures |-> caps, calendar |-> cal, nextEventId |-> nextId, busy |-> {},
     deletes |-> {}, queue |-> << >>, resched |-> {}, actions |-> << >>]

\* an action put in front of planActions
recordPlanActionFirst(actions, captureId, actionType) ==
    << [captureId |-> captureId, actionType |-> actionType] >> \o actions

\* recordPlanAction: the action is pushed to the end of planActions
recordPlanAction(actions, captureId, actionType) ==
    Append(actions, [captureId |-> captureId, actionType |-> actionType])

\* the kind of the target's action, from the status of the row the request loaded
TargetActionType(capture) ==
    IF capture.status = "scheduled" THEN "rescheduled" ELSE "scheduled"

\* a deleteEvent call on eventId, as seen by the request
DeleteCall(eventId, ownEventId, listed) ==
    [id |-> eventId, own |-> eventId = ownEventId,
     diaGuru |-> \E ev \in listed : ev.id = eventId /\ ev.diaGuru,
     capture_id |-> IF \E ev \in listed : ev.id = eventId
                    THEN (CHOOSE ev \in listed : ev.id = eventId).capture_id
                    ELSE NULL]

\* the row written by every commit of a slot
ScheduledRow(row, slot, event, flags) ==
    [row EXCEPT !.status = "scheduled",
                !.planned_start = slot.start,
                !.planned_end = slot.end,
                !.calendar_event_id = event.id,
                !.calendar_event_etag = event.etag,
                !.freeze_until = NULL,
                !.chunks = buildChunksForSlot(row, slot, flags)]

\* the deleteEvent of one conflict in reclaimDiaGuruConflicts, with its retry after a
\* 412 on the refreshed etag; a failed delete is logged and the loop goes on
ReclaimDelete(cal, conflict, blocker, fails) ==
    LET etag == IF blocker.calendar_event_etag # NULL THEN blocker.calendar_event_etag
                ELSE conflict.etag
        Refreshed(first, refreshed) ==
            IF first.status = "412" /\ refreshed.id # NoEvent
            THEN deleteCalendarEvent(first.calendar, conflict.id, refreshed.etag, FALSE)
            ELSE first
        Retried(first) == Refreshed(first, getCalendarEvent(first.calendar, conflict.id))
    IN Retried(deleteCalendarEvent(cal, conflict.id, etag, fails)).calendar

\* the store update of one conflict in reclaimDiaGuruConflicts
ReclaimedRow(row, blocker) ==
    [row EXCEPT !.status = "pending",
                !.calendar_event_id = NoEvent,
                !.calendar_event_etag = NULL,
                !.planned_start = NULL,
                !.planned_end = NULL,
                !.reschedule_count = blocker.reschedule_count + 1,
                !.freeze_until = NULL]

RECURSIVE ReclaimLoop(_, _, _, _, _)
ReclaimLoop(i, conflicts, w, cx, captureMap) ==
    IF i > Len(conflicts) THEN w
    ELSE LET conflict == conflicts[i]
             blocker == captureMap[conflict.capture_id]
             updateFails == cx.fault = "reclaim_update" /\ i = 1
             \* the store update that follows the delete, unless it fails
             Updated(deleted) ==
                 IF updateFails THEN deleted
                 ELSE [deleted EXCEPT
                          !.captures[conflict.capture_id] = ReclaimedRow(@, blocker),
                          !.queue = Append(@, conflict.capture_id),
                          !.actions = recordPlanAction(@, conflict.capture_id,
                                                       "unscheduled")]
         IN IF conflict.capture_id = NULL
            THEN ReclaimLoop(i + 1, conflicts, w, cx, captureMap)
            ELSE ReclaimLoop(i + 1, conflicts,
                             Updated([w EXCEPT
                                 !.calendar = ReclaimDelete(@, conflict, blocker,
                                                            cx.fault = "reclaim_delete"),
                                 !.deletes = @ \cup { DeleteCall(conflict.id, cx.ownEventId,
                                                                 SeqToSet(cx.events)) }]),
                             cx, captureMap)

\* the world after the loop; its queue is the list of rows returned
reclaimDiaGuruConflicts(conflicts, w, cx, captureMap) ==
    ReclaimLoop(1, conflicts, w, cx, captureMap)

\* the comparator of the sort in rescheduleCaptures: a goes strictly before b
RescheduleBefore(a, b) ==
    IF priorityForCapture(b) # priorityForCapture(a)
    THEN priorityForCapture(a) > priorityForCapture(b)
    ELSE IF b.importance # a.importance THEN a.importance > b.importance
    ELSE IF sanitizedEstimatedMinutes(a) # sanitizedEstimatedMinutes(b)
    THEN sanitizedEstimatedMinutes(a) < sanitizedEstimatedMinutes(b)
    ELSE a.created_at < b.created_at

RECURSIVE InsertSorted(_, _, _)
InsertSorted(sorted, id, caps) ==
    IF sorted = << >> THEN << id >>
    ELSE IF RescheduleBefore(caps[id], caps[Head(sorted)]) THEN << id >> \o sorted
    ELSE << Head(sorted) >> \o InsertSorted(Tail(sorted), id, caps)

RECURSIVE SortQueue(_, _)
\* a stable sort of the queue of capture ids
SortQueue(queue, caps) ==
    IF queue = << >> THEN << >>
    ELSE InsertSorted(SortQueue(SubSeq(queue, 1, Len(queue) - 1), caps),
                      queue[Len(queue)], caps)

\* one turn of the loop of rescheduleCaptures from the slot found for capture on
RescheduleOne(w, cx, capture, slot) ==
    LET event == createCalendarEvent(w.nextEventId, capture, slot)
        attempted == [w EXCEPT !.resched = @ \cup { capture.id }]
    IN IF ~IsSlot(slot) \/ cx.fault = "resched_create"
       THEN [attempted EXCEPT !.captures[capture.id].status = "pending",
                              !.captures[capture.id].chunks = << >>]
       ELSE [attempted EXCEPT
                 !.calendar = @ \cup { event },
                 !.nextEventId = @ + 1,
                 !.captures[capture.id] = ScheduledRow(capture, slot, event, PlainFlags),
                 !.busy = registerInterval(@, slot),
                 !.actions = recordPlanAction(@, capture.id, "rescheduled")]

RECURSIVE RescheduleLoop(_, _, _, _)
RescheduleLoop(i, queue, w, cx) ==
    IF i > Len(queue) THEN w
    ELSE LET capture == w.captures[queue[i]]
             durationMinutes == sanitizedEstimatedMinutes(capture)
         IN RescheduleLoop(i + 1, queue,
                RescheduleOne(w, cx, capture,
                    scheduleWithPlan(computeSchedulingPlan(capture, durationMinutes, cx.now),
                                     durationMinutes, w.busy, cx.now,
                                     capture.is_soft_start,
                                     shouldEnforceWorkingWindow(capture), << >>)),
                cx)

rescheduleCaptures(queue, w, cx) ==
    RescheduleLoop(1, SortQueue(queue, w.captures), w, cx)

\* ------------------------------------------------------------------------
\* Responses: the world a request leaves and what it did
Respond(w, cx, path, committed, slot, freeBefore) ==
    [captures |-> w.captures, calendar |-> w.calendar, nextEventId |-> w.nextEventId,
     log |-> [captureId |-> cx.capture.id, action |-> cx.action, cleared |-> cx.cleared,
              rebalance |-> cx.rebalanceRequested, path |-> path,
              committed |-> committed, slot |-> slot,
              freeBefore |-> freeBefore,
              freeAfter |-> IF committed THEN isSlotFree(slot.start, slot.end, w.busy)
                            ELSE FALSE,
              deletes |-> w.deletes, displaced |-> SeqToSet(w.queue),
              resched |-> w.resched, actions |-> w.actions,
              persisted |-> IF committed THEN w.actions ELSE << >>]]

\* createEvent, registerInterval, the store update and the chunks of a commit that has
\* nothing else between them
CommitSlot(w, cx, slot, flags, register, path) ==
    LET event == createCalendarEvent(w.nextEventId, cx.capture, slot)
        created == [w EXCEPT !.calendar = @ \cup { event }, !.nextEventId = @ + 1,
                             !.busy = IF register THEN registerInterval(@, slot) ELSE @]
    IN IF cx.fault = "create" THEN Respond(w, cx, "error", FALSE, NoSlot, FALSE)
       ELSE IF cx.fault = "update" THEN Respond(created, cx, "error", FALSE, NoSlot, FALSE)
       ELSE Respond([created EXCEPT
                        !.captures[cx.capture.id] = ScheduledRow(@, slot, event, flags),
                        !.actions = recordPlanAction(@, cx.capture.id,
                                                     TargetActionType(cx.capture))],
                    cx, path, TRUE, slot, isSlotFree(slot.start, slot.end, w.busy))

scheduleLatePlacementResponse(w, cx, slot) ==
    CommitSlot(w, cx, slot, LateFlags, TRUE, "late_placement")

\* [taken |-> FALSE] for a null return
tryScheduleWithOverlap(w, cx, slot, conflicts, captureMap) ==
    LET overlapConfig == schedulerConfig.overlap
        slotMinutes == Max(SLOT_INCREMENT_MINUTES, slot.end - slot.start)
        targetEstimate == sanitizedEstimatedMinutes(cx.capture)
        maxOverlapForTarget == Max(SLOT_INCREMENT_MINUTES,
                                   targetEstimate * overlapConfig.perTaskOverlapFraction)
        usedMinutes == 0
        highestConflictPriority ==
            LET ps == { priorityForCapture(captureMap[conflicts[i].capture_id]) :
                          i \in DOMAIN conflicts }
            IN CHOOSE m \in ps : \A o \in ps : m >= o
        isPrime == cx.capturePriority >= highestConflictPriority
        targetMinutes == Max(1, targetEstimate)
        \* overlapBenefit - overlapCost > 0, over the common denominator
        positiveNet == cx.capturePriority * slotMinutes * overlapConfig.softCostPerMinute.den
                           > overlapConfig.softCostPerMinute.num * slotMinutes * targetMinutes
    IN IF \/ ~overlapConfig.enabled
          \/ Len(conflicts) = 0
          \/ ~canCaptureOverlap(cx.capture)
          \/ Len(conflicts) + 1 > overlapConfig.maxConcurrency
          \/ \E i \in DOMAIN conflicts : ~canCaptureOverlap(captureMap[conflicts[i].capture_id])
          \/ slotMinutes > maxOverlapForTarget
          \/ usedMinutes + slotMinutes > overlapConfig.dailyBudgetMinutes
          \/ ~positiveNet
       THEN [taken |-> FALSE]
       ELSE [taken |-> TRUE,
             response |-> CommitSlot(w, cx, slot, OverlapFlags(isPrime), TRUE, "overlap")]

\* ------------------------------------------------------------------------
\* Grid preemption
\* the choice a grid candidate offers: [ok |-> FALSE] when the loop skips it
GridChoiceAt(w, cx, index) ==
    LET slot == GridWindowSlot(cx.now, cx.durationMinutes, index)
        parts == PartitionConflicts(ConflictSeq(slot, cx.events, cx.now))
        Offer(movable, displacements, evaluation) ==
            IF \/ GridWindowHasExternal(SeqToSet(cx.events), cx.now, cx.durationMinutes,
                                        index)
               \/ ~isSlotWithinWorkingWindow(slot)
               \/ Len(parts.external) > 0
               \/ Len(parts.diaGuru) = 0
               \/ Len(movable) = 0
               \/ ~outranksAll(cx.capturePriority, movable, w.captures)
               \/ Len(displacements) = 0
               \/ ~evaluation.allowed
            THEN [ok |-> FALSE]
            ELSE [ok |-> TRUE, slot |-> slot, conflicts |-> movable, net |-> evaluation.net,
                  scale |-> evaluation.scale]
        Displaced(movable, displacements) ==
            Offer(movable, displacements,
                  evaluatePreemptionNetGain(cx.capture, displacements,
                                            Max(1, slot.end - slot.start)))
        Movable(movable) ==
            Displaced(movable, buildPreemptionDisplacements(movable, w.captures))
    IN Movable(MovableConflicts(parts.diaGuru, w.captures, cx.now, FALSE))

RECURSIVE PickBest(_, _, _, _)
\* candidates: the candidate start indexes still to visit, in grid order
PickBest(candidates, best, w, cx) ==
    IF candidates = {} THEN best
    ELSE LET index == CHOOSE i \in candidates : \A j \in candidates : i <= j
             Better(choice) ==
                 IF choice.ok /\ (\/ ~best.ok
                                  \/ choice.net * best.scale > best.net * choice.scale)
                 THEN choice ELSE best
         IN PickBest(candidates \ {index}, Better(GridChoiceAt(w, cx, index)), w, cx)

pickGridPreemptionCandidate(candidates, w, cx) ==
    PickBest(candidates, [ok |-> FALSE], w, cx)

\* ------------------------------------------------------------------------
\* The handler
\* the flag defaulting to true when the body names neither field
ResolveAllowRebalanceDefaultingTrue(body) ==
    LET value == IF body.allowRebalance # "absent" THEN body.allowRebalance
                 ELSE IF body.allowPreemption # "absent" THEN body.allowPreemption
                 ELSE "true"
    IN value = "true"

ResolveAllowRebalance(body) ==
    LET value == IF body.allowRebalance # "absent" THEN body.allowRebalance
                 ELSE IF body.allowPreemption # "absent" THEN body.allowPreemption
                 ELSE "false"
    IN value = "true"

SlotWithinWindow(cx) ==
    LET slot == cx.preferredSlot
        withinWorkingHours == IF cx.enforce THEN isSlotWithinWorkingWindow(slot) ELSE TRUE
        withinPlanWindow ==
            IF cx.plan.mode # "window" \/ ~IsSlot(cx.plan.window) THEN TRUE
            ELSE slot.start >= cx.plan.window.start /\ slot.end <= cx.plan.window.end
    IN withinWorkingHours /\ withinPlanWindow

\* selectedConflicts of the preferred-slot branch: the blockers to reclaim, or << >>
SelectedConflicts(captureMap, cx) ==
    LET slot == cx.preferredSlot
        conflicts == ConflictSeq(slot, cx.events, cx.now)
        parts == PartitionConflicts(conflicts)
        rebalanceGuard ==
            /\ cx.allowRebalance
            /\ cx.plan.mode # "flexible"
            /\ SlotWithinWindow(cx)
            /\ Len(conflicts) > 0
            /\ Len(parts.external) = 0
            /\ Len(parts.diaGuru) > 0
        Judged(movable, chosen, displacements) ==
            IF /\ rebalanceGuard
               /\ Len(movable) > 0
               /\ outranksAll(cx.capturePriority, movable, captureMap)
               /\ Len(chosen) > 0
               /\ Len(displacements) > 0
               /\ evaluatePreemptionNetGain(cx.capture, displacements,
                                            Max(1, slot.end - slot.start)).allowed
            THEN chosen ELSE << >>
        Chosen(movable, chosen) ==
            Judged(movable, chosen, buildPreemptionDisplacements(chosen, captureMap))
        Selected(movable, ids) ==
            Chosen(movable, SelectSeq(movable, LAMBDA c : c.id \in ids))
        Movable(movable) ==
            Selected(movable,
                     selectMinimalPreemptionSet(slot, SeqToSet(cx.events),
                                                [ i \in DOMAIN movable |-> movable[i].id ],
                                                cx.plan.mode = "deadline"))
    IN Movable(MovableConflicts(parts.diaGuru, captureMap, cx.now,
                                cx.plan.mode = "deadline"))

\* the store update of the target that ends a commit with displaced captures
TargetUpdate(rescheduled, cx, slot, event, path, freeBefore) ==
    IF cx.fault = "update" THEN Respond(rescheduled, cx, "error", FALSE, NoSlot, FALSE)
    ELSE Respond([rescheduled EXCEPT
                     !.captures[cx.capture.id] = ScheduledRow(@, slot, event, PlainFlags),
                     !.actions = recordPlanAction(@, cx.capture.id,
                                                  TargetActionType(cx.capture))],
                 cx, path, TRUE, slot, freeBefore)

\* createEvent, registerInterval, rescheduleCaptures and the store update, as they
\* follow a reclaim
CommitAfterReclaim(ready, cx, slot, path) ==
    LET event == createCalendarEvent(ready.nextEventId, cx.capture, slot)
        created == [ready EXCEPT !.calendar = @ \cup { event }, !.nextEventId = @ + 1,
                                 !.busy = registerInterval(@, slot)]
    IN IF cx.fault = "create" THEN Respond(ready, cx, "error", FALSE, NoSlot, FALSE)
       ELSE TargetUpdate(IF Len(created.queue) > 0
                         THEN rescheduleCaptures(created.queue, created, cx)
                         ELSE created,
                         cx, slot, event, path,
                         isSlotFree(slot.start, slot.end, ready.busy))

\* the preferred-slot branch from the return of reclaimDiaGuruConflicts on; conflicted
\* tells that the slot had a conflict or lay outside its window
PreferredCommit(reclaimed, cx, selectedConflicts, conflicted) ==
    LET slot == cx.preferredSlot
        removedIds == { selectedConflicts[i].id : i \in DOMAIN selectedConflicts }
        remaining == { ev \in SeqToSet(cx.events) : ev.id \notin removedIds }
        ready == IF conflicted
                 THEN [reclaimed EXCEPT !.busy = computeBusyIntervals(remaining,
                                                                      BUFFER_MINUTES)]
                 ELSE reclaimed
    IN IF conflicted /\ Len(reclaimed.queue) = 0
       THEN Respond(reclaimed, cx, "conflict", FALSE, NoSlot, FALSE)
       ELSE IF ~isSlotWithinConstraints(cx.capture, slot)
       THEN Respond(ready, cx, "slot_exceeds_deadline", FALSE, NoSlot, FALSE)
       ELSE CommitAfterReclaim(ready, cx, slot,
                               IF Len(reclaimed.queue) > 0 THEN "preferred_preempted"
                               ELSE "preferred_slot")

\* the preferred-slot branch once the overlap attempt and the selection are known
PreferredAfterOverlap(w, cx, overlap, selectedConflicts, conflicted) ==
    IF conflicted /\ overlap.taken THEN overlap.response
    ELSE IF conflicted /\ Len(selectedConflicts) = 0
    THEN Respond(w, cx, "conflict", FALSE, NoSlot, FALSE)
    ELSE PreferredCommit(IF conflicted
                         THEN reclaimDiaGuruConflicts(selectedConflicts, w, cx, w.captures)
                         ELSE w,
                         cx, selectedConflicts, conflicted)

\* the preferred-slot branch
PreferredSlotPath(w, cx) ==
    LET slot == cx.preferredSlot
        slotWithinWindow == SlotWithinWindow(cx)
        conflicts == ConflictSeq(slot, cx.events, cx.now)
        parts == PartitionConflicts(conflicts)
        hasConflict == Len(conflicts) > 0
        captureMap == w.captures
        effectiveAllowOverlap ==
            /\ cx.allowOverlap
            /\ slotWithinWindow
            /\ Len(parts.external) = 0
            /\ ~readCannotOverlapFromNotes(cx.capture)
            /\ \A i \in DOMAIN parts.diaGuru :
                   ~readCannotOverlapFromNotes(captureMap[parts.diaGuru[i].capture_id])
    IN PreferredAfterOverlap(
           w, cx,
           IF effectiveAllowOverlap /\ slotWithinWindow /\ hasConflict
              /\ Len(parts.external) = 0
           THEN tryScheduleWithOverlap(w, cx, slot, parts.diaGuru, captureMap)
           ELSE [taken |-> FALSE],
           SelectedConflicts(captureMap, cx),
           hasConflict \/ ~slotWithinWindow)

\* the late placements, tried in the world the preemption attempt left
LatePlacementPath(after, cx) ==
    LET hardDeadline == cx.resolvedDeadline # NULL
                        /\ cx.capture.constraint_type = "deadline_time"
        capacityThreshold ==
            Max(IF cx.capture.min_chunk_minutes = NULL THEN DEFAULT_MIN_CHUNK_MINUTES
                ELSE cx.capture.min_chunk_minutes,
                CeilDiv(cx.durationMinutes, 4))
        preCapacity == summarizeWindowCapacity(SeqToSet(cx.events), cx.now, cx.windowStart,
                                               cx.windowEnd)
        lateSlot == findNextAvailableSlot(after.busy, cx.durationMinutes, cx.windowEnd, cx.now,
                                          cx.enforce, << >>)
        fallbackLateCandidate ==
            findLatePlacementSlot(after.busy, cx.durationMinutes, cx.now, cx.windowEnd,
                                  cx.enforce)
    IN IF /\ ~hardDeadline /\ cx.resolvedDeadline # NULL
          /\ preCapacity < capacityThreshold /\ IsSlot(lateSlot)
       THEN scheduleLatePlacementResponse(after, cx, lateSlot)
       ELSE IF cx.resolvedDeadline # NULL /\ cx.allowLatePlacement
               /\ IsSlot(fallbackLateCandidate)
       THEN scheduleLatePlacementResponse(after, cx, fallbackLateCandidate)
       ELSE Respond(after, cx, "no_slot", FALSE, NoSlot, FALSE)

\* the grid preemption of the branch below, from the candidate picked on; a reclaim
\* that displaced nothing is abandoned
GridPreemptionPath(w, cx, gridChoice) ==
    LET reclaimed == reclaimDiaGuruConflicts(gridChoice.conflicts, w, cx, w.captures)
        removedIds == { gridChoice.conflicts[i].id : i \in DOMAIN gridChoice.conflicts }
        remaining == { ev \in SeqToSet(cx.events) : ev.id \notin removedIds }
    IN IF gridChoice.ok /\ Len(reclaimed.queue) > 0
       THEN CommitAfterReclaim([reclaimed EXCEPT
                                   !.busy = computeBusyIntervals(remaining, BUFFER_MINUTES)],
                               cx, gridChoice.slot, "grid_preemption")
       ELSE LatePlacementPath(IF gridChoice.ok THEN reclaimed ELSE w, cx)

\* the branch below from the return of placeChunksWithinRange on
AfterDirectPlacement(w, cx, placement) ==
    IF placement # << >>
    THEN CommitSlot(w, cx,
                    [start |-> placement[1].start, end |-> placement[Len(placement)].end],
                    PlainFlags, TRUE, "deadline_direct")
    ELSE GridPreemptionPath(
             w, cx,
             IF cx.allowRebalance
             THEN pickGridPreemptionCandidate(
                      IF cx.windowEnd > cx.windowStart
                      THEN collectGridWindowCandidates(cx.now, cx.durationMinutes,
                                                       cx.windowStart, cx.windowEnd,
                                                       GRID_CANDIDATE_LIMIT)
                      ELSE {},
                      w, cx)
             ELSE [ok |-> FALSE])

\* the branch taken when the plan offers no valid candidate
NoCandidatePath(w, cx) ==
    AfterDirectPlacement(
        w, cx,
        IF cx.resolvedDeadline # NULL /\ cx.windowEnd > cx.windowStart
        THEN placeChunksWithinRange(
                 generateChunkDurations(cx.durationMinutes, cx.capture.min_chunk_minutes,
                                        cx.capture.max_splits,
                                        cx.capture.duration_flexibility = "split_allowed"),
                 w.busy, cx.windowStart, cx.windowEnd, cx.enforce)
        ELSE << >>)

\* the locals of a schedule request computed before its first branch
RequestContext(cal, capture, body, referenceNow, cx0) ==
    LET durationMinutes == sanitizedEstimatedMinutes(capture)
        requestPreferred ==
            IF body.preferredStart # NULL
            THEN parsePreferredSlot(body.preferredStart, body.preferredEnd, durationMinutes)
            ELSE NoSlot
        Windowed(plan, resolvedDeadline) ==
            LET scheduleWindowStart ==
                    IF IsSlot(plan.window) THEN Max(plan.window.start, referenceNow)
                    ELSE referenceNow
                primaryWindowEnd == IF IsSlot(plan.window) THEN plan.window.end
                                    ELSE IF resolvedDeadline # NULL THEN resolvedDeadline
                                    ELSE GridEnd(referenceNow)
            IN [capture |-> capture, action |-> cx0.action, cleared |-> cx0.cleared,
                fault |-> body.fault, rebalanceRequested |-> cx0.rebalanceRequested,
                allowOverlap |-> body.allowOverlap,
                allowRebalance |-> ResolveAllowRebalance(body),
                allowLatePlacement |-> body.allowLatePlacement,
                now |-> referenceNow, ownEventId |-> capture.calendar_event_id,
                events |-> listCalendarEvents(cal, referenceNow,
                                              referenceNow + SEARCH_HORIZON_MINUTES),
                capturePriority |-> priorityForCapture(capture),
                durationMinutes |-> durationMinutes, plan |-> plan,
                enforce |-> shouldEnforceWorkingWindow(capture),
                preferredSlot |-> IF IsSlot(requestPreferred) THEN requestPreferred
                                  ELSE plan.preferredSlot,
                resolvedDeadline |-> resolvedDeadline, windowStart |-> scheduleWindowStart,
                windowEnd |-> IF primaryWindowEnd >= scheduleWindowStart
                              THEN primaryWindowEnd
                              ELSE scheduleWindowStart]
        Planned(plan) ==
            Windowed(plan, IF plan.deadline # NULL THEN plan.deadline
                           ELSE resolveDeadlineFromCapture(capture))
    IN Planned(computeSchedulingPlan(capture, durationMinutes, referenceNow))

\* the branch of a request without a preferred slot, from the plan's candidate on
PlanCandidatePath(w, cx, candidate) ==
    IF ~(/\ IsSlot(candidate)
         /\ candidate.start >= cx.windowStart
         /\ candidate.end <= cx.windowEnd)
    THEN NoCandidatePath(w, cx)
    ELSE IF ~isSlotWithinConstraints(cx.capture, candidate)
    THEN Respond(w, cx, "slot_exceeds_deadline", FALSE, NoSlot, FALSE)
    ELSE CommitSlot(w, cx, candidate, PlainFlags, FALSE, "plan_candidate")

\* the branches of a schedule request, w.busy holding the busy intervals of the
\* events listed
ScheduleBranches(w, cx) ==
    LET deadlineElapsed == cx.resolvedDeadline # NULL /\ cx.resolvedDeadline <= cx.windowStart
        initialLateCandidate ==
            findLatePlacementSlot(w.busy, cx.durationMinutes, cx.now, cx.windowEnd,
                                  cx.enforce)
    IN IF deadlineElapsed
       THEN IF cx.allowLatePlacement /\ IsSlot(initialLateCandidate)
            THEN scheduleLatePlacementResponse(w, cx, initialLateCandidate)
            ELSE Respond(w, cx, "slot_exceeds_deadline", FALSE, NoSlot, FALSE)
       ELSE IF IsSlot(cx.preferredSlot) THEN PreferredSlotPath(w, cx)
       ELSE PlanCandidatePath(w, cx,
                              scheduleWithPlan(cx.plan, cx.durationMinutes, w.busy, cx.now,
                                               cx.capture.is_soft_start, cx.enforce,
                                               derivePreferredTimeOfDayBands(cx.capture)))

\* the schedule flow: everything after the completed guard
ScheduleFlow(w0, capture, body, referenceNow, cx0) ==
    LET cx == RequestContext(w0.calendar, capture, body, referenceNow, cx0)
    IN ScheduleBranches([w0 EXCEPT !.busy = computeBusyIntervals(SeqToSet(cx.events),
                                                                 BUFFER_MINUTES)],
                        cx)

\* what a step that is not a request leaves in lastReq
IdleLog(kind) ==
    [captureId |-> NULL, action |-> kind, cleared |-> FALSE, rebalance |-> FALSE,
     path |-> "none",
     committed |-> FALSE, slot |-> NoSlot, freeBefore |-> FALSE, freeAfter |-> FALSE,
     deletes |-> {}, displaced |-> {}, resched |-> {}, actions |-> << >>,
     persisted |-> << >>]

\* handler: the store, the calendar and the log after the request body is served at
\* referenceNow
handler(caps, cal, nextId, referenceNow, body) ==
    LET capture == caps[body.captureId]
        w0 == World(caps, cal, nextId)
        hasEvent == capture.calendar_event_id # NoEvent
        cx0 == [capture |-> capture,
                action |-> IF body.action = "complete" THEN "complete" ELSE "schedule",
                cleared |-> body.action = "reschedule" /\ hasEvent,
                rebalanceRequested |-> body.allowRebalance = "true"
                                       \/ body.allowPreemption = "true"]
        deletion == deleteCalendarEvent(cal, capture.calendar_event_id,
                                        capture.calendar_event_etag, body.fault = "delete")
        deleted == [w0 EXCEPT !.calendar = deletion.calendar,
                              !.deletes = { DeleteCall(capture.calendar_event_id,
                                                       capture.calendar_event_id, cal) }]
        completedRow == [capture EXCEPT !.status = "completed",
                                        !.calendar_event_id = NoEvent,
                                        !.calendar_event_etag = NULL,
                                        !.planned_start = NULL,
                                        !.planned_end = NULL,
                                        !.freeze_until = NULL]
        pendingRow == [capture EXCEPT !.status = "pending",
                                      !.calendar_event_id = NoEvent,
                                      !.calendar_event_etag = NULL,
                                      !.planned_start = NULL,
                                      !.planned_end = NULL,
                                      !.freeze_until = NULL]
        afterDelete == IF hasEvent THEN deleted ELSE w0
    IN IF body.action = "complete"
       THEN IF hasEvent /\ deletion.status # "ok"
            THEN Respond([w0 EXCEPT !.deletes = deleted.deletes], cx0, "error", FALSE, NoSlot,
                         FALSE)
            ELSE IF body.fault = "update"
            THEN Respond(afterDelete, cx0, "error", FALSE, NoSlot, FALSE)
            ELSE Respond([afterDelete EXCEPT !.captures[capture.id] = completedRow], cx0,
                         "completed", FALSE, NoSlot, FALSE)
       ELSE IF body.action = "reschedule" /\ hasEvent /\ deletion.status # "ok"
       THEN Respond([w0 EXCEPT !.deletes = deleted.deletes], cx0, "error", FALSE, NoSlot,
                    FALSE)
       ELSE LET w1 == IF body.action = "reschedule" /\ hasEvent
                      THEN [deleted EXCEPT !.captures[capture.id] = pendingRow]
                      ELSE w0
            IN IF capture.status = "completed"
               THEN Respond(w1, cx0, "already_completed", FALSE, NoSlot, FALSE)
               ELSE ScheduleFlow(w1, capture, body, referenceNow, cx0)

\* ------------------------------------------------------------------------
\* The captures of the store and the requests of the client
CaptureIds == {1, 2, 3}

BaseCapture(id) ==
    [id |-> id, priority |-> 30, importance |-> 1, created_at |-> id,
     estimated_minutes |-> 30,
     constraint_type |-> "flexible", constraint_time |-> NULL, constraint_end |-> NULL,
     constraint_date |-> NULL, original_target_time |-> NULL, deadline_at |-> NULL,
     window_start |-> NULL, window_end |-> NULL, is_soft_start |-> FALSE,
     blocking |-> FALSE, start_flexibility |-> "soft", cannot_overlap |-> FALSE,
     duration_flexibility |-> "fixed", min_chunk_minutes |-> NULL, max_splits |-> NULL,
     task_type_hint |-> "none", time_pref_time_of_day |-> "none",
     status |-> "pending", planned_start |-> NULL, planned_end |-> NULL,
     calendar_event_id |-> NoEvent, calendar_event_etag |-> NULL, freeze_until |-> NULL,
     reschedule_count |-> 0, chunks |-> << >>]

\* 1: a splittable 75-minute task due 20:15; 2: an urgent half hour due 21:40;
\* 3: a flexible half hour
InitialCapture(id) ==
    CASE id = 1 -> [BaseCapture(id) EXCEPT !.priority = 40, !.estimated_minutes = 75,
                                           !.constraint_type = "deadline_time",
                                           !.constraint_time = 1215, !.deadline_at = 1215,
                                           !.duration_flexibility = "split_allowed"]
      [] id = 2 -> [BaseCapture(id) EXCEPT !.priority = 80,
                                           !.constraint_type = "deadline_time",
                                           !.constraint_time = 1300, !.deadline_at = 1300]
      [] OTHER -> BaseCapture(id)

\* an event of the user's own, on the calendar from the start; its private properties
\* may carry a capture_id without the diaGuru flag
ExternalEvent(tag) ==
    [id |-> 1, start |-> 1200, end |-> 1230, diaGuru |-> FALSE, capture_id |-> tag,
     etag |-> 1]

NoPreference == [preferredStart |-> NULL, preferredEnd |-> NULL]

\* a preferred start of 19:00, the end left to the estimate
Evening == [preferredStart |-> 1140, preferredEnd |-> NULL]

\* a preferred range whose end is not after its start
EmptyRange == [preferredStart |-> 1155, preferredEnd |-> 1155]

Flags(overlap, rebalance, preemption, late, fault) ==
    [allowOverlap |-> overlap, allowRebalance |-> rebalance, allowPreemption |-> preemption,
     allowLatePlacement |-> late, fault |-> fault]

PlainFlagsOfRequest == Flags(FALSE, "absent", "absent", FALSE, "none")

RebalanceWith(fault) == Flags(FALSE, "true", "absent", FALSE, fault)

\* the bodies of schedule requests: preference, flags, and the gateway call that fails
ScheduleChoices ==
    ({ NoPreference } \X { PlainFlagsOfRequest, RebalanceWith("none"),
                           RebalanceWith("update"),
                           Flags(FALSE, "absent", "absent", TRUE, "none") })
    \cup
    ({ Evening } \X { PlainFlagsOfRequest, RebalanceWith("none"),
                      Flags(TRUE, "absent", "absent", FALSE, "none"),
                      Flags(FALSE, "absent", "absent", TRUE, "none"),
                      Flags(FALSE, "absent", "true", FALSE, "none"),
                      RebalanceWith("create"), RebalanceWith("update"),
                      RebalanceWith("reclaim_update"), RebalanceWith("reclaim_delete"),
                      RebalanceWith("resched_create") })
    \cup
    { << EmptyRange, PlainFlagsOfRequest >> }

RescheduleChoices ==
    { NoPreference } \X { PlainFlagsOfRequest, RebalanceWith("none"),
                          RebalanceWith("delete") }

RequestBody(captureId, action, preferred, flags) ==
    [captureId |-> captureId, action |-> action,
     preferredStart |-> preferred.preferredStart, preferredEnd |-> preferred.preferredEnd,
     allowOverlap |-> flags.allowOverlap, allowRebalance |-> flags.allowRebalance,
     allowPreemption |-> flags.allowPreemption,
     allowLatePlacement |-> flags.allowLatePlacement, fault |-> flags.fault]

\* the captures the user may lock
FreezableIds == {1}

\* the captures the user completes or sends back for rescheduling
HandledIds == {1, 2}

MaxEventId == 3

\* the requests that may be in flight together
RunIds == {1, 2}

\* a run that has not started: phase, request context, the rows loaded for the
\* conflicts, the blockers selected, the position in the reclaim loop, the queue of
\* rows returned, the deleteEvent calls made and the events whose displacement the
\* run has completed
IdleRun ==
    [phase |-> "idle", cx |-> << >>, captureMap |-> << >>, selected |-> << >>, index |-> 0,
     queue |-> << >>, deletes |-> {}, displacedEvents |-> {}, rescheduled |-> {}]

Init ==
    /\ captures = [ id \in CaptureIds |-> InitialCapture(id) ]
    /\ calendar = { ExternalEvent(3) }
    /\ nextEventId = 2
    /\ now = 18 * 60
    /\ lastReq = IdleLog("none")
    /\ runs = [ r \in RunIds |-> IdleRun ]
    /\ gateway = IdleGateway
    /\ routine = IdleRoutine
    /\ search = IdleSearch

Serve(body) ==
    LET Answer(response) ==
            /\ captures' = response.captures
            /\ calendar' = response.calendar
            /\ nextEventId' = response.nextEventId
            /\ lastReq' = IF /\ response.captures = captures
                              /\ response.calendar = calendar
                              /\ response.log.deletes = {}
                           THEN IdleLog("rejected")
                           ELSE response.log
    IN /\ nextEventId <= MaxEventId
       /\ Answer(handler(captures, calendar, nextEventId, now, body))
       /\ UNCHANGED << now, runs, gateway, routine, search >>

Schedule ==
    \E captureId \in CaptureIds, choice \in ScheduleChoices :
        Serve(RequestBody(captureId, "schedule", choice[1], choice[2]))

\* a reschedule of a capture that has no event runs as a schedule
Reschedule ==
    \E captureId \in HandledIds, choice \in RescheduleChoices :
        /\ captures[captureId].calendar_event_id # NoEvent
        /\ Serve(RequestBody(captureId, "reschedule", choice[1], choice[2]))

Complete ==
    \E captureId \in HandledIds, fault \in { "none", "delete", "update" } :
        Serve(RequestBody(captureId, "complete", NoPreference,
                          Flags(FALSE, "absent", "absent", FALSE, fault)))

\* the user locks a scheduled capture for the next two hours
UserFreeze ==
    \E captureId \in FreezableIds :
        /\ captures[captureId].status = "scheduled"
        /\ captures[captureId].freeze_until = NULL
        /\ captures' = [captures EXCEPT ![captureId].freeze_until = now + 2 * 60]
        /\ lastReq' = IdleLog("freeze")
        /\ UNCHANGED << calendar, nextEventId, now, runs, gateway, routine, search >>

Next == Schedule \/ Reschedule \/ Complete \/ UserFreeze

Spec == Init /\ [][Next]_vars

\* ------------------------------------------------------------------------
\* Two requests in flight: the reclaim loop of each is split at its awaits, the
\* deleteEvent call and the store update; what follows the loop runs in one step
RaceStarts == {1095, 1125, 1140}

\* capture 2 asks for a slot that the session of capture 1 blocks, with allowRebalance
RaceBody(start) ==
    RequestBody(2, "schedule", [preferredStart |-> start, preferredEnd |-> NULL],
                RebalanceWith("none"))

\* the store and the calendar once capture 1 has been scheduled
RaceStart ==
    handler([ id \in CaptureIds |-> InitialCapture(id) ], { ExternalEvent(3) }, 2, 18 * 60,
            RequestBody(1, "schedule", NoPreference, PlainFlagsOfRequest))

RaceInit ==
    LET Started(response) ==
            /\ captures = response.captures
            /\ calendar = response.calendar
            /\ nextEventId = response.nextEventId
            /\ lastReq = response.log
    IN /\ Started(RaceStart)
       /\ now = 18 * 60
       /\ runs = [ r \in RunIds |-> IdleRun ]
       /\ gateway = IdleGateway
       /\ routine = IdleRoutine
       /\ search = IdleSearch

\* the request up to the call of reclaimDiaGuruConflicts: events listed, rows of the
\* conflicts loaded, blockers selected
RaceSelect(r) ==
    \E start \in RaceStarts :
        LET body == RaceBody(start)
            capture == captures[body.captureId]
            Selected(cx, selected) ==
                /\ Len(selected) > 0
                /\ runs' = [runs EXCEPT ![r] = [IdleRun EXCEPT !.phase = "delete",
                                                               !.cx = cx,
                                                               !.captureMap = captures,
                                                               !.selected = selected,
                                                               !.index = 1]]
            Listed(cx) == Selected(cx, SelectedConflicts(captures, cx))
        IN /\ runs[r].phase = "idle"
           /\ capture.status # "completed"
           /\ Listed(RequestContext(calendar, capture, body, now,
                                    [action |-> "schedule", cleared |-> FALSE,
                                     rebalanceRequested |-> TRUE]))
           /\ UNCHANGED << captures, calendar, nextEventId, now, lastReq, gateway, routine, search >>

\* the deleteEvent call of the loop for the current blocker
RaceDelete(r) ==
    LET request == runs[r]
        conflict == request.selected[request.index]
        blocker == request.captureMap[conflict.capture_id]
    IN /\ request.phase = "delete"
       /\ calendar' = ReclaimDelete(calendar, conflict, blocker, FALSE)
       /\ runs' = [runs EXCEPT ![r].phase = "update",
                               ![r].deletes = @ \cup { DeleteCall(conflict.id,
                                                                  request.cx.ownEventId,
                                                                  SeqToSet(request.cx.events)) }]
       /\ UNCHANGED << captures, nextEventId, now, lastReq, gateway, routine, search >>

\* the store update of the loop for the current blocker
RaceUpdate(r) ==
    LET request == runs[r]
        conflict == request.selected[request.index]
        blocker == request.captureMap[conflict.capture_id]
    IN /\ request.phase = "update"
       /\ captures' = [captures EXCEPT ![conflict.capture_id] = ReclaimedRow(@, blocker)]
       /\ runs' = [runs EXCEPT ![r].phase = IF request.index = Len(request.selected) THEN "commit"
                                            ELSE "delete",
                               ![r].index = @ + 1,
                               ![r].queue = Append(@, conflict.capture_id),
                               ![r].displacedEvents = @ \cup { conflict.id }]
       /\ UNCHANGED << calendar, nextEventId, now, lastReq, gateway, routine, search >>

\* the rest of the request: guard, createEvent, rescheduleCaptures, the target's update
RaceCommit(r) ==
    LET request == runs[r]
        w == [World(captures, calendar, nextEventId) EXCEPT !.queue = request.queue,
                                                            !.deletes = request.deletes]
        Answer(response) ==
            /\ captures' = response.captures
            /\ calendar' = response.calendar
            /\ nextEventId' = response.nextEventId
            /\ lastReq' = response.log
            /\ runs' = [runs EXCEPT ![r].phase = "done",
                                    ![r].rescheduled = response.log.resched]
    IN /\ request.phase = "commit"
       /\ Answer(PreferredCommit(w, request.cx, request.selected, TRUE))
       /\ UNCHANGED << now, gateway, routine, search >>

RaceNext ==
    \E r \in RunIds : RaceSelect(r) \/ RaceDelete(r) \/ RaceUpdate(r) \/ RaceCommit(r)

SpecRace == RaceInit /\ [][RaceNext]_vars

\* ------------------------------------------------------------------------
\* Requests without a preferred slot, at several times of the day
\* 06:00, 20:00 and 21:45 of the first day
ClockTimes == { 6 * 60, 20 * 60, 21 * 60 + 45 }

\* capture 3 as a flexible half hour, with a deadline_at of 20:10 and no constraint
\* type, as 75 minutes preferred at night, or bound to the window 18:00-20:00 with a
\* deadline_at of 21:30
ClockVariants == { "flexible", "soft_deadline", "night", "window" }

ClockCapture(id, variant) ==
    IF id # 3 THEN InitialCapture(id)
    ELSE CASE variant = "soft_deadline" -> [BaseCapture(id) EXCEPT !.deadline_at = 1210]
           [] variant = "night" -> [BaseCapture(id) EXCEPT !.estimated_minutes = 75,
                                                           !.time_pref_time_of_day = "night"]
           [] variant = "window" -> [BaseCapture(id) EXCEPT !.constraint_type = "window",
                                                            !.constraint_time = 1080,
                                                            !.constraint_end = 1200,
                                                            !.window_start = 1080,
                                                            !.window_end = 1200,
                                                            !.deadline_at = 1290]
           [] OTHER -> BaseCapture(id)

InitClock ==
    /\ \E variant \in ClockVariants :
          captures = [ id \in CaptureIds |-> ClockCapture(id, variant) ]
    /\ calendar = { ExternalEvent(3) }
    /\ nextEventId = 2
    /\ now \in ClockTimes
    /\ lastReq = IdleLog("none")
    /\ runs = [ r \in RunIds |-> IdleRun ]
    /\ gateway = IdleGateway
    /\ routine = IdleRoutine
    /\ search = IdleSearch

\* the flags of the requests: none, allowRebalance, allowLatePlacement, both
ClockFlags ==
    { Flags(FALSE, rebalance, "absent", late, "none") :
        rebalance \in { "absent", "true" }, late \in BOOLEAN }

ClockSchedule ==
    \E captureId \in CaptureIds, flags \in ClockFlags :
        Serve(RequestBody(captureId, "schedule", NoPreference, flags))

SpecClock == InitClock /\ [][ClockSchedule]_vars

\* ------------------------------------------------------------------------
\* Requests that offer overlap, for three captures of 75 minutes on an empty calendar
InitOverlap ==
    /\ captures = [ id \in CaptureIds |->
                      [InitialCapture(id) EXCEPT !.estimated_minutes = 75] ]
    /\ calendar = {}
    /\ nextEventId = 1
    /\ now = 18 * 60
    /\ lastReq = IdleLog("none")
    /\ runs = [ r \in RunIds |-> IdleRun ]
    /\ gateway = IdleGateway
    /\ routine = IdleRoutine
    /\ search = IdleSearch

\* preferred starts of 18:15, 19:00 and 19:15, or none
OverlapStarts == { NULL, 1095, 1140, 1155 }

OverlapSchedule ==
    \E captureId \in CaptureIds, start \in OverlapStarts, allowOverlap \in BOOLEAN :
        Serve(RequestBody(captureId, "schedule",
                          [preferredStart |-> start, preferredEnd |-> NULL],
                          Flags(allowOverlap, "absent", "absent", FALSE, "none")))

SpecOverlap == InitOverlap /\ [][OverlapSchedule]_vars

\* ------------------------------------------------------------------------
\* The calendar operations of a request, with the provider's answers drawn freely
MaxOperations == 3

AnswerPairs == [ 1..2 -> Statuses ]

\* the gateway after the request went through a call site
AfterSite(site, refreshes, needs_reconnect) ==
    gateway' = [gateway EXCEPT !.open = ~site.thrown,
                               !.operations = @ + 1,
                               !.refreshes = @ + refreshes,
                               !.needs_reconnect = needs_reconnect,
                               !.site = site]

\* a request arrives: resolveCalendarClient loads the account and its token, and
\* refreshes the token when it is missing, expired or the account needs a reconnect
GatewayResolve ==
    \E refreshToken \in BOOLEAN, expired \in BOOLEAN, refreshOk \in BOOLEAN :
        LET needsRefresh == expired \/ gateway.needs_reconnect
            refreshed == refreshToken /\ refreshOk
            linked == ~needsRefresh \/ refreshed
        IN /\ ~gateway.open
           /\ gateway' = [IdleGateway EXCEPT !.open = linked,
                                             !.refreshToken = refreshToken,
                                             !.needs_reconnect = ~linked]
           /\ UNCHANGED << captures, calendar, nextEventId, now, lastReq, runs, routine, search >>

\* the listEvents call of the handler; its error goes to the handler
GatewayList ==
    \E answers \in AnswerPairs, refreshOk \in BOOLEAN :
        LET listed == run("list", answers, gateway.refreshToken, refreshOk,
                          gateway.needs_reconnect)
        IN /\ gateway.open
           /\ gateway.operations < MaxOperations
           /\ AfterSite([IdleSite EXCEPT !.kind = "list", !.answer = listed.answer,
                                         !.provider = listed.calls,
                                         !.thrown = ~listed.ok],
                        listed.refreshes, listed.needs_reconnect)
           /\ UNCHANGED << captures, calendar, nextEventId, now, lastReq, runs, routine, search >>

\* the deleteEvent call of action complete and of action reschedule: no handler around
\* it, so its error goes to the handler
GatewayActionDelete ==
    \E action \in { "complete", "reschedule" }, answers \in AnswerPairs,
       refreshOk \in BOOLEAN :
        LET deleted == run("delete", answers, gateway.refreshToken, refreshOk,
                           gateway.needs_reconnect)
        IN /\ gateway.open
           /\ gateway.operations = 0
           /\ AfterSite([IdleSite EXCEPT !.kind = action, !.answer = deleted.answer,
                                         !.deletes = 1, !.provider = deleted.calls,
                                         !.thrown = ~deleted.ok],
                        deleted.refreshes, deleted.needs_reconnect)
           /\ UNCHANGED << captures, calendar, nextEventId, now, lastReq, runs, routine, search >>

\* the deleteEvent call of reclaimDiaGuruConflicts for one conflict: on a 412 the event
\* is fetched again and, when it is still there, deleted once more with the fetched
\* etag; an error of the first or of the second delete is logged, an error of the fetch
\* is not caught
GatewayReclaimDelete ==
    \E answers \in AnswerPairs, refreshOk \in BOOLEAN :
        LET first == run("delete", answers, gateway.refreshToken, refreshOk,
                         gateway.needs_reconnect)
            site == [IdleSite EXCEPT !.kind = "reclaim", !.answer = first.answer,
                                     !.deletes = 1, !.provider = first.calls]
            Retried(fetched, retry) ==
                AfterSite([site EXCEPT !.refetches = 1, !.deletes = 2,
                                       !.provider = first.calls + fetched.calls
                                                    + retry.calls],
                          first.refreshes + fetched.refreshes + retry.refreshes,
                          retry.needs_reconnect)
            Fetched(fetched) ==
                IF ~fetched.ok \/ fetched.answer = 404
                THEN AfterSite([site EXCEPT !.refetches = 1,
                                            !.provider = first.calls + fetched.calls,
                                            !.thrown = ~fetched.ok],
                               first.refreshes + fetched.refreshes,
                               fetched.needs_reconnect)
                ELSE \E again \in AnswerPairs :
                        Retried(fetched, run("delete", again, gateway.refreshToken,
                                             refreshOk, fetched.needs_reconnect))
        IN /\ gateway.open
           /\ gateway.operations < MaxOperations
           /\ IF ~first.ok /\ first.status = 412
              THEN \E refetch \in AnswerPairs :
                      Fetched(run("get", refetch, gateway.refreshToken, refreshOk,
                                  first.needs_reconnect))
              ELSE AfterSite(site, first.refreshes, first.needs_reconnect)
           /\ UNCHANGED << captures, calendar, nextEventId, now, lastReq, runs, routine, search >>

\* the createEvent call of a commit: of the handler, whose error goes to the handler, or
\* of rescheduleCaptures, which catches it
GatewayCreate ==
    \E commit \in { "create", "reschedule_create" }, answers \in AnswerPairs,
       refreshOk \in BOOLEAN :
        LET created == run("create", answers, gateway.refreshToken, refreshOk,
                           gateway.needs_reconnect)
        IN /\ gateway.open
           /\ gateway.operations < MaxOperations
           /\ AfterSite([IdleSite EXCEPT !.kind = commit, !.answer = created.answer,
                                         !.creates = 1, !.provider = created.calls,
                                         !.thrown = ~created.ok /\ commit = "create"],
                        created.refreshes, created.needs_reconnect)
           /\ UNCHANGED << captures, calendar, nextEventId, now, lastReq, runs, routine, search >>

\* the handler responds
GatewayRespond ==
    /\ gateway.open
    /\ gateway' = [gateway EXCEPT !.open = FALSE]
    /\ UNCHANGED << captures, calendar, nextEventId, now, lastReq, runs, routine, search >>

GatewayNext ==
    \/ GatewayResolve
    \/ GatewayList
    \/ GatewayActionDelete
    \/ GatewayReclaimDelete
    \/ GatewayCreate
    \/ GatewayRespond

SpecGateway == Init /\ [][GatewayNext]_vars

\* ------------------------------------------------------------------------
\* Routine captures under normalization: every routine row, reference time and timezone
\* of the sets below, normalized again and again
RoutineKinds ==
    { << "routine.sleep", "none" >>, << "routine.meal", "none" >>,
      << "routine.chore", "none" >>, << "none", "routine.sleep" >>,
      << "none", "routine.meal" >>, << "routine.meal", "routine.sleep" >> }

\* manual_touch_at and freeze_until
RoutineLocks == { << NULL, NULL >>, << 17 * 60, NULL >>, << NULL, 23 * 60 >> }

\* start_target_at and original_target_time
RoutineTargets ==
    { << NULL, NULL >>, << 23 * 60 + 15, NULL >>, << NULL, MINUTES_PER_DAY + 10 * 60 >> }

\* window_start and window_end
RoutineWindows == { << NULL, NULL >>, << 13 * 60, NULL >>, << 13 * 60, 13 * 60 + 45 >> }

RoutineFlexibilities == { << "none", "none" >>, << "hard", "split_allowed" >> }

RoutineTimes == { 7 * 60 + 10, 16 * 60 + 46, 22 * 60 + 30, MINUTES_PER_DAY + 7 * 60 }

RoutineTimezones ==
    { "absent", "Asia/Tokyo", "America/New_York", "America/Chicago", "Mars/Olympus" }

RoutineCaptures ==
    { [RoutineRow(kind[1], kind[2]) EXCEPT
           !.manual_touch_at = lock[1], !.freeze_until = lock[2],
           !.start_target_at = target[1], !.original_target_time = target[2],
           !.time_pref_day = day,
           !.constraint_type = IF window[2] # NULL THEN "window" ELSE "flexible",
           !.constraint_time = IF window[2] # NULL THEN window[1] ELSE NULL,
           !.constraint_end = window[2],
           !.window_start = window[1], !.window_end = window[2],
           !.deadline_at = deadline,
           !.start_flexibility = flexibility[1], !.duration_flexibility = flexibility[2],
           !.cannot_overlap = overlap, !.time_pref_time_of_day = timeOfDay] :
        kind \in RoutineKinds, lock \in RoutineLocks, target \in RoutineTargets,
        day \in { "none", "tomorrow" }, window \in RoutineWindows,
        deadline \in { NULL, 20 * 60 }, flexibility \in RoutineFlexibilities,
        overlap \in { "none", "true" }, timeOfDay \in { "none", "morning" } }

InitRoutine ==
    /\ captures = [id \in CaptureIds |-> InitialCapture(id)]
    /\ calendar = {}
    /\ nextEventId = 1
    /\ now = 18 * 60
    /\ lastReq = IdleLog("none")
    /\ runs = [ r \in RunIds |-> IdleRun ]
    /\ gateway = IdleGateway
    /\ search = IdleSearch
    /\ \E capture \in RoutineCaptures, referenceNow \in RoutineTimes,
          timezone \in RoutineTimezones :
           routine = [capture |-> capture, referenceNow |-> referenceNow,
                      timezone |-> timezone, normalized |-> FALSE, thrown |-> FALSE]

\* the handler normalizes the row it loaded and writes the normalized fields back
RoutineNormalize ==
    /\ ~NormalizeThrows(routine.capture, routine.timezone)
    /\ routine' = [routine EXCEPT
                       !.capture = normalizeRoutineCapture(@, routine.referenceNow,
                                                           routine.timezone),
                       !.normalized = TRUE]
    /\ UNCHANGED << captures, calendar, nextEventId, now, lastReq, runs, gateway, search >>

\* the call throws and the row stays as it was
RoutineThrow ==
    /\ NormalizeThrows(routine.capture, routine.timezone)
    /\ routine' = [routine EXCEPT !.thrown = TRUE]
    /\ UNCHANGED << captures, calendar, nextEventId, now, lastReq, runs, gateway, search >>

RoutineNext == RoutineNormalize \/ RoutineThrow

SpecRoutine == InitRoutine /\ [][RoutineNext]_vars

\* ------------------------------------------------------------------------
\* Chunking: capture 1 with every estimate, minimum chunk, split limit and splitting
\* flag of the sets below, scheduled on an empty calendar at 08:00
ChunkTotals ==
    { 5, 15, 20, 30, 45, 50, 60, 75, 90, 100, 105, 120, 150, 180, 240, 300, 480 }

\* min_chunk_minutes: null, and minimums on and off the increment
ChunkMinimums == { NULL, 15, 20, 30, 45, 60 }

\* max_splits: null, zero, and limits of one to three
ChunkSplits == { NULL, 0, 1, 2, 3 }

InitChunks ==
    /\ \E total \in ChunkTotals, minimum \in ChunkMinimums, splits \in ChunkSplits,
          flexibility \in { "fixed", "split_allowed" } :
           captures = [ id \in CaptureIds |->
                          IF id = 1
                          THEN [BaseCapture(id) EXCEPT !.estimated_minutes = total,
                                                       !.min_chunk_minutes = minimum,
                                                       !.max_splits = splits,
                                                       !.duration_flexibility = flexibility]
                          ELSE BaseCapture(id) ]
    /\ calendar = {}
    /\ nextEventId = 1
    /\ now = 8 * 60
    /\ lastReq = IdleLog("none")
    /\ runs = [ r \in RunIds |-> IdleRun ]
    /\ gateway = IdleGateway
    /\ routine = IdleRoutine
    /\ search = IdleSearch

ChunkSchedule == Serve(RequestBody(1, "schedule", NoPreference, PlainFlagsOfRequest))

SpecChunks == InitChunks /\ [][ChunkSchedule]_vars

\* ------------------------------------------------------------------------
\* Plans: capture 1 with every constraint of the sets below, scheduled at 18:00
\* constraint_type: the five kinds, the two aliases, and null
PlanTypes ==
    { "flexible", "start_time", "window", "deadline_time", "deadline_date", "deadline",
      "end_time", "none" }

\* constraint_time: null, 17:00 (passed) and 19:00
PlanTimes == { NULL, 17 * 60, 19 * 60 }

\* constraint_end: null, before 19:00, 20 minutes after it, and 21:00
PlanEnds == { NULL, 18 * 60 + 30, 19 * 60 + 20, 21 * 60 }

InitPlan ==
    /\ \E type \in PlanTypes, time \in PlanTimes, end \in PlanEnds, date \in { NULL, 0 },
          target \in { NULL, 20 * 60 }, deadline \in { NULL, 21 * 60 + 30 },
          windowEnd \in { NULL, 20 * 60 + 45 } :
           captures = [ id \in CaptureIds |->
                          IF id = 1
                          THEN [BaseCapture(id) EXCEPT !.constraint_type = type,
                                                       !.constraint_time = time,
                                                       !.constraint_end = end,
                                                       !.constraint_date = date,
                                                       !.original_target_time = target,
                                                       !.deadline_at = deadline,
                                                       !.window_end = windowEnd]
                          ELSE BaseCapture(id) ]
    /\ calendar = { ExternalEvent(3) }
    /\ nextEventId = 2
    /\ now = 18 * 60
    /\ lastReq = IdleLog("none")
    /\ runs = [ r \in RunIds |-> IdleRun ]
    /\ gateway = IdleGateway
    /\ routine = IdleRoutine
    /\ search = IdleSearch

PlanSchedule ==
    \E late \in BOOLEAN :
        Serve(RequestBody(1, "schedule", NoPreference,
                          Flags(FALSE, "absent", "absent", late, "none")))

SpecPlan == InitPlan /\ [][PlanSchedule]_vars

\* ------------------------------------------------------------------------
\* Preemption near now: capture 1 (priority 40) anchored at 18:20 by a start time, a
\* window or a deadline, and two flexible captures that requests place at 18:20 or 18:45
StabilityKinds == { "start_time", "window", "deadline_time" }

StabilityCapture(id, kind) ==
    CASE id = 1 /\ kind = "start_time" ->
             [BaseCapture(id) EXCEPT !.priority = 40, !.constraint_type = "start_time",
                                     !.constraint_time = 18 * 60 + 20]
      [] id = 1 /\ kind = "window" ->
             [BaseCapture(id) EXCEPT !.priority = 40, !.constraint_type = "window",
                                     !.constraint_time = 18 * 60 + 20,
                                     !.constraint_end = 19 * 60 + 20,
                                     !.window_start = 18 * 60 + 20,
                                     !.window_end = 19 * 60 + 20]
      [] id = 1 /\ kind = "deadline_time" ->
             [BaseCapture(id) EXCEPT !.priority = 40, !.constraint_type = "deadline_time",
                                     !.constraint_time = 19 * 60 + 20,
                                     !.deadline_at = 19 * 60 + 20]
      [] OTHER -> BaseCapture(id)

InitStability ==
    /\ \E kind \in StabilityKinds :
           captures = [ id \in CaptureIds |-> StabilityCapture(id, kind) ]
    /\ calendar = { ExternalEvent(3) }
    /\ nextEventId = 2
    /\ now = 18 * 60
    /\ lastReq = IdleLog("none")
    /\ runs = [ r \in RunIds |-> IdleRun ]
    /\ gateway = IdleGateway
    /\ routine = IdleRoutine
    /\ search = IdleSearch

\* preferred starts: none, 18:20 (20 minutes from now) and 18:45
StabilityStarts == { NULL, 18 * 60 + 20, 18 * 60 + 45 }

StabilitySchedule ==
    \E captureId \in CaptureIds, start \in StabilityStarts,
       flags \in { PlainFlagsOfRequest, RebalanceWith("none") } :
        Serve(RequestBody(captureId, "schedule",
                          [preferredStart |-> start, preferredEnd |-> NULL], flags))

SpecStability == InitStability /\ [][StabilitySchedule]_vars

\* ------------------------------------------------------------------------
\* Plan ledger of the last request
\* the captures recordPlanAction was called for: the conflicts reclaimed ("unscheduled"),
\* the queued captures that were placed again ("rescheduled"), and the target once its
\* commit is stored ("scheduled")
planActions ==
    lastReq.displaced
        \cup { id \in lastReq.resched : captures[id].status = "scheduled" }
        \cup (IF lastReq.committed THEN { lastReq.captureId } ELSE {})

\* finalizePlan is called by the responses of the commits and by no other exit
finalizePlan == lastReq.committed

\* ------------------------------------------------------------------------
\* Properties of the committed schedule
EndBounds(capture) ==
    { bound \in { capture.deadline_at, capture.window_end, capture.constraint_end } :
        bound # NULL }

AllChunks(capture, flag) ==
    \A i \in DOMAIN capture.chunks : capture.chunks[i][flag]

\* C1: a capture with status scheduled ends no later than the earliest of its set
\* deadline_at, window_end and constraint_end, or else each of its chunks is late
C1_EndsWithinBounds ==
    \A id \in CaptureIds :
        captures[id].status = "scheduled"
            => \/ \A bound \in EndBounds(captures[id]) : captures[id].planned_end <= bound
               \/ AllChunks(captures[id], "late")

BufferedOverlap(a, b) ==
    /\ a.planned_start - BUFFER_MINUTES < b.planned_end
    /\ a.planned_end + BUFFER_MINUTES > b.planned_start

\* C2: of two scheduled captures whose intervals overlap once one is widened by the
\* 10-minute buffer, the one committed later has every chunk marked overlapped
C2_OverlapOnlyWhenMarked ==
    \A a \in CaptureIds, b \in CaptureIds :
        /\ captures[a].status = "scheduled"
        /\ captures[b].status = "scheduled"
        /\ captures[a].calendar_event_id > captures[b].calendar_event_id
        /\ BufferedOverlap(captures[a], captures[b])
        => AllChunks(captures[a], "overlapped")

\* C3: the slot of every commit is free in the run's busy list right before createEvent
\* and no longer free in that list when the commit is done
C3_FreeBeforeTakenAfter ==
    lastReq.committed => lastReq.freeBefore /\ ~lastReq.freeAfter

\* C4: each deleteEvent call is aimed at the stored event of the requested capture or at
\* an event that carries diaGuru=true and a capture_id
C4_DeletesOnlyOwnedEvents ==
    \A call \in lastReq.deletes : call.own \/ (call.diaGuru /\ call.capture_id # NULL)

C4_ReclaimDeleted ==
    \E call \in lastReq.deletes : ~call.own /\ call.id \notin { ev.id : ev \in calendar }

\* C5: a capture with status scheduled has a planned start strictly before its planned
\* end, both set, and the id of a calendar event
C5_ScheduledHasIntervalAndEvent ==
    \A id \in CaptureIds :
        captures[id].status = "scheduled"
            => /\ captures[id].planned_start # NULL
               /\ captures[id].planned_end # NULL
               /\ captures[id].planned_start < captures[id].planned_end
               /\ captures[id].calendar_event_id # NoEvent

C5_PreferredSlotCommitted ==
    /\ lastReq.committed
    /\ lastReq.path = "preferred_slot"
    /\ captures[lastReq.captureId].status = "scheduled"

\* C6: a schedule or reschedule request leaves every capture whose freeze is active
\* with its calendar event, its planned interval and its freeze_until
C6_FrozenStaysPut ==
    [][\A id \in CaptureIds :
          /\ lastReq'.action = "schedule"
          /\ captures[id].status = "scheduled"
          /\ hasActiveFreeze(captures[id], now)
          => /\ captures'[id].planned_start = captures[id].planned_start
             /\ captures'[id].planned_end = captures[id].planned_end
             /\ captures'[id].freeze_until = captures[id].freeze_until
             /\ \A ev \in calendar :
                    ev.id = captures[id].calendar_event_id => ev \in calendar']_vars

\* C7: a request that sets neither allowRebalance nor allowPreemption leaves the events
\* of the other captures on the calendar and their status, planned interval, event id
\* and reschedule_count as they were
C7_NoFlagNoDisplacement ==
    [][lastReq'.action \in { "schedule", "complete" } /\ ~lastReq'.rebalance
          => /\ \A id \in CaptureIds \ { lastReq'.captureId } :
                    /\ captures'[id].status = captures[id].status
                    /\ captures'[id].planned_start = captures[id].planned_start
                    /\ captures'[id].planned_end = captures[id].planned_end
                    /\ captures'[id].calendar_event_id = captures[id].calendar_event_id
                    /\ captures'[id].reschedule_count = captures[id].reschedule_count
             /\ \A ev \in calendar :
                    ev.capture_id # lastReq'.captureId => ev \in calendar']_vars

C7_CommittedBesideAnother ==
    /\ lastReq.action = "schedule"
    /\ ~lastReq.rebalance
    /\ lastReq.committed
    /\ \E id \in CaptureIds \ { lastReq.captureId } : captures[id].status = "scheduled"

\* C8: each capture that the reclaim step of a request marked pending was handed to
\* rescheduleCaptures before the request returned
C8_DisplacedAreRescheduled ==
    lastReq.displaced \subseteq lastReq.resched

\* the events whose displacement run r has completed: capture marked pending and
\* handed to rescheduleCaptures
DisplacementsCompleted(r) ==
    { conflict.id : conflict \in
        { c \in SeqToSet(runs[r].selected) :
            c.id \in runs[r].displacedEvents /\ c.capture_id \in runs[r].rescheduled } }

\* C9: of two interleaved runs that selected the same owned event, at most one
\* completes the displacement of that event
C9_AtMostOneRunDisplaces ==
    \A r1 \in RunIds, r2 \in RunIds :
        r1 # r2 => DisplacementsCompleted(r1) \cap DisplacementsCompleted(r2) = {}

\* C10: a capture with status completed keeps that status, gets no planned interval
\* and no new calendar event
C10_CompletedIsTerminal ==
    [][\A id \in CaptureIds :
          captures[id].status = "completed"
          => /\ captures'[id].status = "completed"
             /\ captures'[id].planned_start = NULL
             /\ captures'[id].planned_end = NULL
             /\ \A ev \in calendar' \ calendar : ev.capture_id # id]_vars

\* C11: every calendar delete (of reclaim, of action complete, of action reschedule)
\* that fails with 412 is followed by exactly one refetch of the event and exactly one
\* retried delete, and a delete that fails with any other status that is not 2xx leaves
\* an error to the caller
C11_DeleteRetriedOrPropagated ==
    LET site == gateway.site
    IN site.kind \in { "reclaim", "complete", "reschedule" } =>
          /\ site.answer = 412 => (site.refetches = 1 /\ site.deletes = 2)
          /\ site.answer \notin { 200, 412 } => site.thrown

\* C12: within one request at most one token refresh is attempted in response to the
\* 401 answers of its calendar operations
C12_OneRefreshPerRequest == gateway.refreshes <= 1

\* C13: the createEvent call of a commit reaches the provider at most once
C13_CreateReachesProviderOnce ==
    gateway.site.kind \in { "create", "reschedule_create" } => gateway.site.provider <= 1

\* C14: a schedule request without allowLatePlacement for a capture whose deadline lies
\* after now and before now plus its duration is answered 409 with the reason
\* slot_exceeds_deadline and creates no calendar event
C14_ShortOfDeadlineRefused ==
    \A captureId \in CaptureIds, flags \in ClockFlags :
        LET capture == captures[captureId]
            deadline == resolveDeadlineFromCapture(capture)
            response == handler(captures, calendar, nextEventId, now,
                                RequestBody(captureId, "schedule", NoPreference, flags))
        IN (/\ capture.status # "completed"
            /\ ~flags.allowLatePlacement
            /\ deadline # NULL
            /\ now < deadline
            /\ deadline < now + sanitizedEstimatedMinutes(capture))
           => (/\ response.log.path = "slot_exceeds_deadline"
               /\ response.calendar \subseteq calendar)

\* C15: every late placement commits a slot that starts at or after the later of the
\* resolved deadline and now, and marks every chunk of the capture late
C15_LateSlotAfterDeadline ==
    (lastReq.path = "late_placement" /\ lastReq.committed) =>
        LET capture == captures[lastReq.captureId]
        IN /\ lastReq.slot.start >= Max(resolveDeadlineFromCapture(capture), now)
           /\ capture.chunks # << >>
           /\ \A i \in DOMAIN capture.chunks : capture.chunks[i].late

\* C16: whenever the planned intervals of two scheduled captures overlap in time, both
\* may overlap (not blocking, start not hard, cannot_overlap not set) and the overlap
\* went through the overlap commit, which adds the minutes of the slot to the usage of
\* the slot's day and marks the chunks overlapped
C16_OverlapOnlyThroughOverlapCommit ==
    \A a, b \in CaptureIds :
        (/\ a # b
         /\ captures[a].status = "scheduled"
         /\ captures[b].status = "scheduled"
         /\ captures[a].planned_start < captures[b].planned_end
         /\ captures[b].planned_start < captures[a].planned_end)
        => (/\ canCaptureOverlap(captures[a])
            /\ canCaptureOverlap(captures[b])
            /\ \E c \in { a, b } :
                   \E i \in DOMAIN captures[c].chunks : captures[c].chunks[i].overlapped)

\* the minutes of the scheduled captures committed through the overlap commit on the
\* UTC day
OverlapMinutesOn(day) ==
    SumSeq([ id \in 1..Cardinality(CaptureIds) |->
               IF /\ captures[id].status = "scheduled"
                  /\ captures[id].planned_start \div MINUTES_PER_DAY = day
                  /\ \E i \in DOMAIN captures[id].chunks : captures[id].chunks[i].overlapped
               THEN captures[id].planned_end - captures[id].planned_start
               ELSE 0 ])

\* C17: over any sequence of requests the minutes committed through overlap on one UTC
\* day never exceed dailyBudgetMinutes
C17_OverlapWithinDailyBudget ==
    \A day \in 0..SEARCH_DAYS :
        OverlapMinutesOn(day) <= schedulerConfig.overlap.dailyBudgetMinutes

\* C18: every slot committed by the automatic search for a capture that is not a
\* routine starts at or after 08:00 and ends at or before 22:00 local time of the day
\* it starts on, whatever the time of the request and the preferred time of day
C18_SlotWithinWorkingDay ==
    \A id \in CaptureIds :
        (/\ captures[id].status = "scheduled"
         /\ detectRoutineKind(captures[id]) = "none")
        => LET start == toLocalDate(captures[id].planned_start)
               end == toLocalDate(captures[id].planned_end)
           IN /\ MinuteOfDay(start) >= WORKING_START_HOUR * 60
              /\ end - StartOfLocalDay(start) <= DAY_END_HOUR * 60

\* C19: a request that recorded at least one PlanAction writes its actions and the run
\* summary before it responds, on every exit
C19_RecordedActionsAreWritten == planActions # {} => finalizePlan

\* C20: normalizing a routine capture again, with the same reference time and timezone,
\* returns a capture with the same fields as the first normalization
C20_NormalizeRoutineIdempotent ==
    LET once == normalizeRoutineCapture(routine.capture, routine.referenceNow,
                                        routine.timezone)
    IN (routine.referenceNow # NULL /\ ~NormalizeThrows(routine.capture, routine.timezone))
           => /\ ~NormalizeThrows(once, routine.timezone)
              /\ normalizeRoutineCapture(once, routine.referenceNow, routine.timezone) = once

\* a sleep routine whose window the first normalization built, stored after the call
C20_Witness ==
    /\ routine.normalized
    /\ isSleep(routine.capture)
    /\ routine.capture.window_start = 22 * 60
    /\ routine.capture.window_end = MINUTES_PER_DAY + 7 * 60 + 30
    /\ routine.capture.deadline_at = routine.capture.window_end

\* the chunk durations of a capture's estimate, and the minimum chunk asked for
ChunkDurationsOf(capture) ==
    generateChunkDurations(capture.estimated_minutes, capture.min_chunk_minutes,
                           capture.max_splits,
                           capture.duration_flexibility = "split_allowed")

ChunkMinimumOf(capture) ==
    IF capture.min_chunk_minutes = NULL THEN DEFAULT_MIN_CHUNK_MINUTES
    ELSE capture.min_chunk_minutes

ChunkRoundedTotal(capture) ==
    CeilDiv(capture.estimated_minutes, SLOT_INCREMENT_MINUTES) * SLOT_INCREMENT_MINUTES

\* C21 (as stated): the chunk durations sum to the total rounded up to 15 minutes, each is
\* at least minChunkMinutes, and there are at most maxSplits of them when maxSplits is set
C21_ChunksAsStated ==
    \A id \in CaptureIds :
        LET capture == captures[id]
            durations == ChunkDurationsOf(capture)
        IN /\ SumSeq(durations) = ChunkRoundedTotal(capture)
           /\ \A i \in 1..Len(durations) : durations[i] >= ChunkMinimumOf(capture)
           /\ capture.max_splits # NULL => Len(durations) <= capture.max_splits

\* C21: the chunk durations sum to the total rounded up to 15 minutes; each is at least
\* minChunkMinutes when minChunkMinutes is at most the rounded total, and the only chunk
\* is the rounded total otherwise; there are at most maxSplits of them when maxSplits is
\* a positive number
C21_ChunksWithinTotal ==
    \A id \in CaptureIds :
        LET capture == captures[id]
            durations == ChunkDurationsOf(capture)
        IN /\ SumSeq(durations) = ChunkRoundedTotal(capture)
           /\ IF ChunkMinimumOf(capture) <= ChunkRoundedTotal(capture)
              THEN \A i \in 1..Len(durations) : durations[i] >= ChunkMinimumOf(capture)
              ELSE durations = << ChunkRoundedTotal(capture) >>
           /\ (capture.max_splits # NULL /\ capture.max_splits > 0)
                  => Len(durations) <= capture.max_splits

\* capture 1 committed in three chunks of at least its minimum of 20 minutes
C21_SplitCommitted ==
    /\ lastReq.committed
    /\ captures[1].min_chunk_minutes = 20
    /\ captures[1].max_splits = 3
    /\ Len(captures[1].chunks) = 3
    /\ Len(ChunkDurationsOf(captures[1])) = 3

\* the plan of capture 1 at the time of the state
PlanOfCapture == computeSchedulingPlan(captures[1], sanitizedEstimatedMinutes(captures[1]), now)

\* the value a deadline kind names: constraint_time, or 22:00 local of constraint_date
ConstraintDeadline(capture) ==
    CASE capture.constraint_type \in { "deadline_time", "deadline", "end_time" } ->
             capture.constraint_time
      [] capture.constraint_type = "deadline_date" ->
             IF capture.constraint_date = NULL THEN NULL
             ELSE capture.constraint_date + DAY_END_HOUR * 60 - OffsetMinutes
      [] OTHER -> NULL

C23_DeadlinePrecedence ==
    LET capture == captures[1]
        specific == IF capture.constraint_type = "window" THEN capture.constraint_end
                    ELSE ConstraintDeadline(capture)
    IN resolveDeadlineFromCapture(capture) =
           IF capture.deadline_at # NULL THEN capture.deadline_at
           ELSE IF specific # NULL THEN specific
           ELSE capture.window_end

\* the wall clock of timezone at an instant, in minutes since its 00:00 of day 0
LocalClock(instant, timezone) == instant + getTimezoneOffsetMinutes(instant, timezone)

\* C24: a normalized sleep capture has window_start at 22:00 local of the date of its
\* base reference and window_end at 07:30 local of the day after, 9 hours 30 minutes
\* later when the offset of the timezone is the same at both; with time_pref_day =
\* tomorrow at 16:46Z of day 0 in America/Chicago the window is 04:00Z to 13:30Z of day 1
C24_SleepWindowOfBaseNight ==
    LET timezone == OptionTimezone(routine.timezone)
        capture == routine.capture
        out == normalizeRoutineCapture(capture, routine.referenceNow, routine.timezone)
        baseDate == getLocalDateParts(resolveSleepBaseReference(capture, routine.referenceNow),
                                      timezone)
    IN (routine.referenceNow # NULL /\ isSleep(capture) /\ ~UnknownTimezone(routine.timezone))
           => /\ LocalClock(out.window_start, timezone) = baseDate * MINUTES_PER_DAY + 22 * 60
              /\ LocalClock(out.window_end, timezone)
                     = (baseDate + 1) * MINUTES_PER_DAY + 7 * 60 + 30
              /\ getTimezoneOffsetMinutes(out.window_start, timezone)
                         = getTimezoneOffsetMinutes(out.window_end, timezone)
                     => out.window_end - out.window_start = 9 * 60 + 30
              /\ ( /\ routine.timezone = "America/Chicago"
                   /\ routine.referenceNow = 16 * 60 + 46
                   /\ capture.time_pref_day = "tomorrow"
                   /\ capture.start_target_at = NULL /\ capture.original_target_time = NULL )
                     => /\ out.window_start = MINUTES_PER_DAY + 4 * 60
                        /\ out.window_end = MINUTES_PER_DAY + 13 * 60 + 30

\* C25: a normalized meal capture that had no window has window_start at 12:00 local and
\* window_end at 14:00 local of the same local day, window_start before window_end, and
\* the constraint kind window
C25_MealWindowOfOneDay ==
    LET timezone == OptionTimezone(routine.timezone)
        capture == routine.capture
        out == normalizeRoutineCapture(capture, routine.referenceNow, routine.timezone)
    IN ( /\ routine.referenceNow # NULL
         /\ isMeal(capture) /\ ~isSleep(capture)
         /\ capture.window_start = NULL /\ capture.window_end = NULL
         /\ ~UnknownTimezone(routine.timezone) )
           => /\ LocalClock(out.window_start, timezone) % MINUTES_PER_DAY = 12 * 60
              /\ LocalClock(out.window_end, timezone) % MINUTES_PER_DAY = 14 * 60
              /\ LocalClock(out.window_start, timezone) \div MINUTES_PER_DAY
                     = LocalClock(out.window_end, timezone) \div MINUTES_PER_DAY
              /\ out.window_start < out.window_end
              /\ out.constraint_type = "window"

\* C26: the target of a request that displaced owned captures has a priority strictly
\* greater than the priority of every capture the request displaced
C26_TargetOutranksDisplaced ==
    \A id \in lastReq.displaced :
        priorityForCapture(captures[lastReq.captureId]) > priorityForCapture(captures[id])

\* a request whose preemption displaced a capture and committed its target
C26_PreemptionCommitted ==
    /\ lastReq.committed
    /\ lastReq.displaced # {}
    /\ lastReq.captureId \notin lastReq.displaced

\* C27: a capture whose planned start is within 30 minutes of the time of the request is
\* not displaced by the request, unless the plan of the request's target is a deadline plan
C27_StableNotDisplaced ==
    [][\A id \in lastReq'.displaced :
           ( /\ captures[id].planned_start # NULL
             /\ captures[id].planned_start - now <= STABILITY_WINDOW_MINUTES )
               => computeSchedulingPlan(captures[lastReq'.captureId],
                                        sanitizedEstimatedMinutes(captures[lastReq'.captureId]),
                                        now).mode = "deadline"]_vars

\* a target anchored by a start time whose request displaced a capture and committed,
\* while another capture stays planned within 30 minutes of now
C27_DisplacedBeyondStability ==
    /\ lastReq.committed
    /\ lastReq.displaced # {}
    /\ captures[lastReq.captureId].constraint_type # "deadline_time"
    /\ \E id \in CaptureIds : /\ captures[id].status = "scheduled"
                              /\ id # lastReq.captureId
                              /\ withinStabilityWindow(captures[id], now)

Replaced ==
    { id \in lastReq.displaced \cap lastReq.resched : captures[id].status = "scheduled" }

\* C29: displaced captures are placed again only in a request whose target is committed,
\* with its calendar event created and its row set to scheduled on the committed slot,
\* and never on a slot that overlaps the target's slot widened by the buffer
C29_RescheduleAfterTargetCommit ==
    Replaced # {} =>
        /\ lastReq.committed
        /\ captures[lastReq.captureId].status = "scheduled"
        /\ captures[lastReq.captureId].planned_start = lastReq.slot.start
        /\ \E ev \in calendar : ev.id = captures[lastReq.captureId].calendar_event_id
        /\ \A id \in Replaced \ { lastReq.captureId } :
               \/ captures[id].planned_end <= lastReq.slot.start - BUFFER_MINUTES
               \/ captures[id].planned_start >= lastReq.slot.end + BUFFER_MINUTES

\* C30: when a delete of the reclaim left its event on the calendar, the request ends in
\* an error and the capture of the event stays scheduled on that event; a capture is
\* marked pending by the reclaim only once its event is deleted
C30_PendingOnlyAfterDelete ==
    \A call \in lastReq.deletes :
        ( /\ ~call.own
          /\ call.capture_id \in CaptureIds
          /\ \E ev \in calendar : ev.id = call.id )
            => /\ lastReq.path = "error"
               /\ call.capture_id \notin lastReq.displaced
               /\ captures[call.capture_id].status = "scheduled"
               /\ captures[call.capture_id].calendar_event_id = call.id

\* the captures that share the slot of the last commit: the target and every scheduled
\* capture whose planned interval intersects the slot
Participants ==
    { lastReq.captureId } \cup
    { id \in CaptureIds :
        /\ captures[id].status = "scheduled"
        /\ captures[id].planned_start < lastReq.slot.end
        /\ lastReq.slot.start < captures[id].planned_end }

\* C31: after an overlap commit, among the captures sharing the slot exactly the one
\* with the highest priority has prime=true on its chunks, every other participant has
\* prime=false, and the chunks of all participants are marked overlapped=true
C31_PrimeOnHighestOnly ==
    (lastReq.path = "overlap" /\ lastReq.committed) =>
        LET top == CHOOSE id \in Participants :
                       \A other \in Participants :
                           priorityForCapture(captures[id])
                               >= priorityForCapture(captures[other])
        IN \A id \in Participants :
               /\ captures[id].chunks # << >>
               /\ AllChunks(captures[id], "overlapped")
               /\ \A i \in DOMAIN captures[id].chunks :
                      captures[id].chunks[i].prime = (id = top)

\* ------------------------------------------------------------------------
\* Slot search within a window: windows of the morning, the evening and the night, a
\* request at 09:00 or 10:20, and the busy intervals of up to three events
WindowStarts == { 10 * 60, 21 * 60, 23 * 60 }

WindowEnds == { 12 * 60, 22 * 60, MINUTES_PER_DAY + 60, MINUTES_PER_DAY + 9 * 60 }

WindowNows == { 9 * 60, 10 * 60 + 20 }

WindowDurations == { 5, 60, 100 }

WindowEvents ==
    { [id |-> 1, start |-> 10 * 60, end |-> 10 * 60 + 30, diaGuru |-> FALSE,
       capture_id |-> NULL, etag |-> 1],
      [id |-> 2, start |-> 11 * 60, end |-> 11 * 60 + 15, diaGuru |-> FALSE,
       capture_id |-> NULL, etag |-> 1],
      [id |-> 3, start |-> 21 * 60 + 10, end |-> 21 * 60 + 40, diaGuru |-> FALSE,
       capture_id |-> NULL, etag |-> 1] }

InitWindow ==
    /\ captures = [ id \in CaptureIds |-> InitialCapture(id) ]
    /\ calendar = {}
    /\ nextEventId = 1
    /\ now = 9 * 60
    /\ lastReq = IdleLog("none")
    /\ runs = [ r \in RunIds |-> IdleRun ]
    /\ gateway = IdleGateway
    /\ routine = IdleRoutine
    /\ \E events \in SUBSET WindowEvents, durationMinutes \in WindowDurations,
          windowStart \in WindowStarts, windowEnd \in WindowEnds,
          referenceNow \in WindowNows, enforce \in BOOLEAN :
           search = [call |-> "findSlotWithinWindow",
                     intervals |-> computeBusyIntervals(events, BUFFER_MINUTES),
                     durationMinutes |-> durationMinutes, windowStart |-> windowStart,
                     windowEnd |-> windowEnd, referenceNow |-> referenceNow,
                     enforce |-> enforce, done |-> FALSE, result |-> NoSlot]

\* the call returns
WindowSearch ==
    /\ ~search.done
    /\ search' = [search EXCEPT
                      !.done = TRUE,
                      !.result = findSlotWithinWindow(search.intervals,
                                                      search.durationMinutes,
                                                      search.windowStart, search.windowEnd,
                                                      search.referenceNow, search.enforce)]
    /\ UNCHANGED << captures, calendar, nextEventId, now, lastReq, runs, gateway, routine >>

SpecWindow == InitWindow /\ [][WindowSearch]_vars

\* a slot inside the working window, 08:00-22:00 of the local day it starts on
WithinWorkingDay(slot) ==
    /\ MinuteOfDay(toLocalDate(slot.start)) >= WORKING_START_HOUR * 60
    /\ toLocalDate(slot.end) - StartOfLocalDay(toLocalDate(slot.start)) <= DAY_END_HOUR * 60

\* the candidates of the window search: the starts max(ws, now) + k * 15 whose slot ends
\* by we, lies in working hours when enforced and is free of every busy interval
WindowCandidates ==
    LET first == Max(search.windowStart, search.referenceNow)
        steps == 0..((search.windowEnd - first) \div SLOT_INCREMENT_MINUTES + 1)
    IN { slot \in { [start |-> first + k * SLOT_INCREMENT_MINUTES,
                     end |-> first + k * SLOT_INCREMENT_MINUTES + search.durationMinutes] :
                       k \in steps } :
           /\ slot.end <= search.windowEnd
           /\ search.enforce => WithinWorkingDay(slot)
           /\ \A iv \in search.intervals : slot.end <= iv.start \/ iv.end <= slot.start }

\* C32: findSlotWithinWindow returns the candidate with the earliest start among the
\* starts max(ws, now) + k * 15 minutes whose slot ends by we, lies in working hours when
\* enforced and is free of every busy interval, and null only when there is none; for 60
\* minutes, window 10:00-12:00, now 09:00 and no busy interval it returns 10:00-11:00
C32_EarliestCandidateOfWindow ==
    (search.call = "findSlotWithinWindow" /\ search.done) =>
        /\ IF WindowCandidates = {} THEN search.result = NoSlot
           ELSE /\ search.result \in WindowCandidates
                /\ \A slot \in WindowCandidates : search.result.start <= slot.start
        /\ (/\ search.durationMinutes = 60
            /\ search.windowStart = 10 * 60
            /\ search.windowEnd = 12 * 60
            /\ search.referenceNow = 9 * 60
            /\ search.intervals = {})
           => search.result = [start |-> 10 * 60, end |-> 11 * 60]

\* ------------------------------------------------------------------------
\* Busy intervals and conflict detection on the same events: a meeting under way at
\* 09:00, two later events, and slots at and around their ends
BusyEvents ==
    { [id |-> 1, start |-> 8 * 60 + 30, end |-> 9 * 60 + 30, diaGuru |-> FALSE,
       capture_id |-> NULL, etag |-> 1],
      [id |-> 2, start |-> 10 * 60, end |-> 10 * 60 + 30, diaGuru |-> FALSE,
       capture_id |-> NULL, etag |-> 1],
      [id |-> 3, start |-> 11 * 60, end |-> 11 * 60 + 15, diaGuru |-> FALSE,
       capture_id |-> NULL, etag |-> 1] }

BusyNows == { 9 * 60, 10 * 60 + 20 }

BusySlotStarts ==
    { 9 * 60 + 30, 9 * 60 + 35, 9 * 60 + 45, 10 * 60 + 30, 10 * 60 + 35, 10 * 60 + 45,
      11 * 60 + 20 }

BusySlotMinutes == { 15, 30 }

InitBusy ==
    /\ captures = [ id \in CaptureIds |-> InitialCapture(id) ]
    /\ calendar = {}
    /\ nextEventId = 1
    /\ now = 9 * 60
    /\ lastReq = IdleLog("none")
    /\ runs = [ r \in RunIds |-> IdleRun ]
    /\ gateway = IdleGateway
    /\ routine = IdleRoutine
    /\ \E events \in SUBSET BusyEvents, referenceNow \in BusyNows,
          start \in BusySlotStarts, minutes \in BusySlotMinutes :
           search = [call |-> "conflicts",
                     events |-> listCalendarEvents(events, referenceNow,
                                                   referenceNow + SEARCH_HORIZON_MINUTES),
                     referenceNow |-> referenceNow,
                     slot |-> [start |-> start, end |-> start + minutes],
                     done |-> FALSE, conflicts |-> {}, busyIntervals |-> {}]

\* the handler computes the busy intervals of the events listed and the conflicts of
\* the preferred slot
BusyAndConflicts ==
    /\ ~search.done
    /\ search' = [search EXCEPT
                      !.done = TRUE,
                      !.busyIntervals = computeBusyIntervals(SeqToSet(search.events),
                                                             BUFFER_MINUTES),
                      !.conflicts = collectConflictingEvents(search.slot,
                                                             SeqToSet(search.events),
                                                             search.referenceNow)]
    /\ UNCHANGED << captures, calendar, nextEventId, now, lastReq, runs, gateway, routine >>

SpecBusy == InitBusy /\ [][BusyAndConflicts]_vars

\* C33: the busy intervals used by slot search and the conflict detection used for a
\* preferred slot agree on every event, both with zero buffer for an event in progress
\* at now: a slot has no conflicting event exactly when it is free in the busy intervals
C33_ConflictFreeIffFree ==
    (search.call = "conflicts" /\ search.done) =>
        ((search.conflicts = {})
            <=> isSlotFree(search.slot.start, search.slot.end, search.busyIntervals))

\* ------------------------------------------------------------------------
\* The preemption set of the slot 19:00-19:30 among sessions that overlap it, sessions
\* that only touch its buffer, and an event of the user's own
PreemptSlot == [start |-> 19 * 60, end |-> 19 * 60 + 30]

PreemptEvent(id, start, end, owned) ==
    [id |-> id, start |-> start, end |-> end, diaGuru |-> owned,
     capture_id |-> IF owned THEN id ELSE NULL, etag |-> 1]

PreemptEvents ==
    { PreemptEvent(1, 19 * 60 + 15, 19 * 60 + 45, TRUE),
      PreemptEvent(2, 19 * 60 + 37, 20 * 60, TRUE),
      PreemptEvent(3, 18 * 60 + 40, 18 * 60 + 52, TRUE),
      PreemptEvent(4, 19 * 60 + 36, 19 * 60 + 50, FALSE),
      PreemptEvent(5, 19 * 60, 19 * 60 + 10, TRUE),
      PreemptEvent(6, 18 * 60, 18 * 60 + 30, TRUE) }

InitPreempt ==
    /\ captures = [ id \in CaptureIds |-> InitialCapture(id) ]
    /\ calendar = {}
    /\ nextEventId = 1
    /\ now = 18 * 60
    /\ lastReq = IdleLog("none")
    /\ runs = [ r \in RunIds |-> IdleRun ]
    /\ gateway = IdleGateway
    /\ routine = IdleRoutine
    /\ \E events \in SUBSET PreemptEvents, allowCompressedBuffer \in BOOLEAN :
           LET movable == PartitionConflicts(
                              ConflictSeq(PreemptSlot, SortEvents(events), now)).diaGuru
           IN search = [call |-> "selectMinimalPreemptionSet", slot |-> PreemptSlot,
                        events |-> events,
                        candidateIds |-> [ i \in DOMAIN movable |-> movable[i].id ],
                        allowCompressedBuffer |-> allowCompressedBuffer,
                        done |-> FALSE, result |-> {}]

\* the call returns
PreemptSelect ==
    /\ ~search.done
    /\ search' = [search EXCEPT
                      !.done = TRUE,
                      !.result = selectMinimalPreemptionSet(search.slot, search.events,
                                                            search.candidateIds,
                                                            search.allowCompressedBuffer)]
    /\ UNCHANGED << captures, calendar, nextEventId, now, lastReq, runs, gateway, routine >>

SpecPreempt == InitPreempt /\ [][PreemptSelect]_vars

\* the sets of 1 to 4 candidate ids whose removal makes the slot feasible under the
\* full buffer, or under the compressed buffer when it is allowed
FeasibleRemovals ==
    LET Feasible(removalSet, buffer) ==
            isSlotFeasible(search.slot,
                           computeBusyIntervals({ ev \in search.events :
                                                    ev.id \notin removalSet }, buffer),
                           TRUE)
    IN { removalSet \in SUBSET SeqToSet(search.candidateIds) :
           /\ Cardinality(removalSet) \in 1..MAX_COMBINATION_SIZE
           /\ \/ Feasible(removalSet, BUFFER_MINUTES)
              \/ (search.allowCompressedBuffer
                  /\ Feasible(removalSet, COMPRESSED_BUFFER_MINUTES)) }

\* C34: selectMinimalPreemptionSet returns a set of minimum cardinality among all
\* subsets of the candidate ids of size 1 to 4 whose removal makes the slot feasible
\* (under the full buffer, or under the compressed buffer when it is allowed), and null
\* only when no such subset exists
C34_MinimumCardinalityRemoval ==
    (search.call = "selectMinimalPreemptionSet" /\ search.done) =>
        IF FeasibleRemovals = {} THEN search.result = {}
        ELSE /\ search.result \in FeasibleRemovals
             /\ \A removalSet \in FeasibleRemovals :
                    Cardinality(search.result) <= Cardinality(removalSet)

\* ------------------------------------------------------------------------
\* Windows of the occupancy grid: requests in the morning, the evening and late in the
\* evening, ranges that end on the first day or the next, and events at the end of the
\* first day and the start of the second
GridNows == { 9 * 60, 18 * 60, 21 * 60 + 20 }

GridDurations == { 15, 30, 50, 75 }

GridWindowStarts == { 9 * 60, 21 * 60, MINUTES_PER_DAY + 8 * 60 }

GridWindowEnds == { 22 * 60, MINUTES_PER_DAY + 9 * 60, MINUTES_PER_DAY + 22 * 60 }

GridEvents ==
    { [id |-> 1, start |-> 21 * 60 + 30, end |-> 21 * 60 + 45, diaGuru |-> FALSE,
       capture_id |-> NULL, etag |-> 1],
      [id |-> 2, start |-> 21 * 60, end |-> 21 * 60 + 30, diaGuru |-> TRUE,
       capture_id |-> 2, etag |-> 1],
      [id |-> 3, start |-> MINUTES_PER_DAY + 8 * 60, end |-> MINUTES_PER_DAY + 8 * 60 + 30,
       diaGuru |-> FALSE, capture_id |-> NULL, etag |-> 1] }

InitGrid ==
    /\ captures = [ id \in CaptureIds |-> InitialCapture(id) ]
    /\ calendar = {}
    /\ nextEventId = 1
    /\ now = 9 * 60
    /\ lastReq = IdleLog("none")
    /\ runs = [ r \in RunIds |-> IdleRun ]
    /\ gateway = IdleGateway
    /\ routine = IdleRoutine
    /\ \E events \in SUBSET GridEvents, referenceNow \in GridNows,
          durationMinutes \in GridDurations, windowStart \in GridWindowStarts,
          windowEnd \in GridWindowEnds :
           search = [call |-> "collectGridWindowCandidates", events |-> events,
                     referenceNow |-> referenceNow, durationMinutes |-> durationMinutes,
                     windowStart |-> windowStart, windowEnd |-> windowEnd,
                     done |-> FALSE, result |-> {}]

\* the grid is built from the events and scanned; result holds the index of the first
\* cell of every window returned
GridScan ==
    /\ ~search.done
    /\ search' = [search EXCEPT
                      !.done = TRUE,
                      !.result = collectGridWindowCandidates(search.referenceNow,
                                                             search.durationMinutes,
                                                             search.windowStart,
                                                             search.windowEnd,
                                                             GRID_CANDIDATE_LIMIT)]
    /\ UNCHANGED << captures, calendar, nextEventId, now, lastReq, runs, gateway, routine >>

SpecGrid == InitGrid /\ [][GridScan]_vars

\* C35: every window returned by collectGridWindowCandidates consists of
\* ceil(duration/15) grid cells that are consecutive in time, contains no external cell,
\* lies within [windowStart, windowEnd], and has a slot whose length equals the number
\* of cells times 15 minutes
C35_GridWindowsAreContiguous ==
    (search.call = "collectGridWindowCandidates" /\ search.done) =>
        \A i \in search.result :
            LET cells == CeilDiv(search.durationMinutes, SLOT_INCREMENT_MINUTES)
                slot == GridWindowSlot(search.referenceNow, search.durationMinutes, i)
            IN /\ \A k \in 0..(cells - 2) :
                      CellEnd(search.referenceNow, i + k)
                          = CellStart(search.referenceNow, i + k + 1)
               /\ ~GridWindowHasExternal(search.events, search.referenceNow,
                                         search.durationMinutes, i)
               /\ slot.start >= search.windowStart
               /\ slot.end <= search.windowEnd
               /\ slot.end - slot.start = cells * SLOT_INCREMENT_MINUTES

\* ------------------------------------------------------------------------
\* Properties of the calendar and the store across requests
\* the owned events of a capture
OwnedEvents(cal, id) == { ev \in cal : ev.diaGuru /\ ev.capture_id = id }

OneOwnedEventPerCapture(caps, cal) ==
    \A id \in CaptureIds :
        /\ Cardinality(OwnedEvents(cal, id)) <= 1
        /\ caps[id].status = "scheduled"
           => \A ev \in OwnedEvents(cal, id) : ev.id = caps[id].calendar_event_id

\* C36: a request that succeeds (schedule, reschedule or complete, also a schedule
\* request on a capture that is already scheduled) leaves at most one owned event per
\* capture id on the calendar, and for a scheduled capture it is the event whose id is
\* stored in calendar_event_id
C36_OneOwnedEventPerCapture ==
    [][(OneOwnedEventPerCapture(captures, calendar) /\ lastReq'.path # "error")
           => OneOwnedEventPerCapture(captures', calendar')]_vars


\* ------------------------------------------------------------------------
\* Requests to schedule and to reschedule as the evening goes on
\* 19:00 and 20:30, the times the clock moves to
LaterTimes == { 19 * 60, 20 * 60 + 30 }

LaterPreferences == { NoPreference, Evening }

\* with and without allowLatePlacement
LaterFlags == { PlainFlagsOfRequest, Flags(FALSE, "absent", "absent", TRUE, "none") }

LaterRequest ==
    \E captureId \in CaptureIds, action \in { "schedule", "reschedule" },
       preferred \in LaterPreferences, flags \in LaterFlags :
        Serve(RequestBody(captureId, action, preferred, flags))

\* time passes between two requests
LaterTick ==
    /\ \E t \in LaterTimes : t > now /\ now' = t
    /\ lastReq' = IdleLog("tick")
    /\ UNCHANGED << captures, calendar, nextEventId, runs, gateway, routine, search >>

LaterNext == LaterRequest \/ LaterTick

SpecLater == Init /\ [][LaterNext]_vars

\* C37: a request with action=reschedule that ends without a commit (409 no_slot or
\* slot_exceeds_deadline, or a preferred_conflict decision) leaves the capture's previous
\* placement intact: status, planned interval and calendar event as before the request
C37_FailedRescheduleKeepsPlacement ==
    [][(/\ lastReq'.cleared
        /\ ~lastReq'.committed
        /\ lastReq'.path \in { "no_slot", "slot_exceeds_deadline", "conflict" })
       => LET before == captures[lastReq'.captureId]
              after == captures'[lastReq'.captureId]
          IN /\ after.status = before.status
             /\ after.planned_start = before.planned_start
             /\ after.planned_end = before.planned_end
             /\ after.calendar_event_id = before.calendar_event_id
             /\ \E ev \in calendar' : ev.id = before.calendar_event_id]_vars


\* ------------------------------------------------------------------------
\* Captures of 20, 50 and 100 minutes, splittable or not, due 20:15 or 21:40, around
\* the user's own events
LengthMinutes == { 20, 50, 100 }

LengthDeadlines == { 20 * 60 + 15, 21 * 60 + 40 }

\* a second event of the user's own: none, 18:50-19:00 or 19:00-19:15
LengthEvents ==
    { {},
      { [id |-> 0, start |-> 18 * 60 + 50, end |-> 19 * 60, diaGuru |-> FALSE,
         capture_id |-> NULL, etag |-> 1] },
      { [id |-> 0, start |-> 19 * 60, end |-> 19 * 60 + 15, diaGuru |-> FALSE,
         capture_id |-> NULL, etag |-> 1] } }

LengthCapture(id, minutes, deadline, flexibility) ==
    IF id = 3 THEN InitialCapture(id)
    ELSE [InitialCapture(id) EXCEPT !.estimated_minutes = minutes,
                                    !.constraint_time = deadline,
                                    !.deadline_at = deadline,
                                    !.duration_flexibility = flexibility]

InitLength ==
    /\ \E minutes \in LengthMinutes, deadline \in LengthDeadlines,
          flexibility \in { "fixed", "split_allowed" } :
           captures = [ id \in CaptureIds |->
                          LengthCapture(id, minutes, deadline, flexibility) ]
    /\ \E extra \in LengthEvents : calendar = { ExternalEvent(3) } \cup extra
    /\ nextEventId = 2
    /\ now = 18 * 60
    /\ lastReq = IdleLog("none")
    /\ runs = [ r \in RunIds |-> IdleRun ]
    /\ gateway = IdleGateway
    /\ routine = IdleRoutine
    /\ search = IdleSearch

LengthSchedule ==
    \E captureId \in CaptureIds, flags \in ClockFlags :
        Serve(RequestBody(captureId, "schedule", NoPreference, flags))

SpecLength == InitLength /\ [][LengthSchedule]_vars

\* the commit paths that choose the slot themselves
AutomaticPaths == { "plan_candidate", "deadline_direct", "grid_preemption", "late_placement" }

\* C38: on every automatic commit path (plan candidate, deadline direct placement, grid
\* preemption, late placement, automatic rescheduling) the committed interval
\* planned_end - planned_start equals the capture's estimated duration clamped to
\* [5, 480] minutes
C38_CommittedLengthIsDuration ==
    /\ (lastReq.committed /\ lastReq.path \in AutomaticPaths) =>
           LET capture == captures[lastReq.captureId]
           IN capture.planned_end - capture.planned_start
                  = Max(MIN_DURATION_MINUTES,
                        Min(capture.estimated_minutes, MAX_DURATION_MINUTES))
    /\ \A id \in lastReq.resched :
           captures[id].status = "scheduled" =>
               captures[id].planned_end - captures[id].planned_start
                   = Max(MIN_DURATION_MINUTES,
                         Min(captures[id].estimated_minutes, MAX_DURATION_MINUTES))

\* ------------------------------------------------------------------------
\* A sleep capture over several days: requests normalize the stored row at the time
\* they arrive, and days pass between requests
RenormalizeRows ==
    { [RoutineRow("routine.sleep", "none") EXCEPT
           !.start_target_at = target[1], !.original_target_time = target[2],
           !.time_pref_day = day] :
        target \in RoutineTargets, day \in { "none", "tomorrow" } }

RenormalizeTimezones == { "absent", "Asia/Tokyo", "America/Chicago" }

\* the last day a request arrives on
MaxRequestDay == 3

InitRenormalize ==
    /\ captures = [id \in CaptureIds |-> InitialCapture(id)]
    /\ calendar = {}
    /\ nextEventId = 1
    /\ now = 18 * 60
    /\ lastReq = IdleLog("none")
    /\ runs = [ r \in RunIds |-> IdleRun ]
    /\ gateway = IdleGateway
    /\ search = IdleSearch
    /\ \E capture \in RenormalizeRows, referenceNow \in RoutineTimes,
          timezone \in RenormalizeTimezones :
           routine = [capture |-> capture, referenceNow |-> referenceNow,
                      timezone |-> timezone, normalized |-> FALSE, thrown |-> FALSE]

\* a request: the handler normalizes the row it loaded and writes the fields back
RenormalizeRequest ==
    /\ routine' = [routine EXCEPT
                       !.capture = normalizeRoutineCapture(@, routine.referenceNow,
                                                           routine.timezone),
                       !.normalized = TRUE]
    /\ UNCHANGED << captures, calendar, nextEventId, now, lastReq, runs, gateway, search >>

\* the next request arrives a day later
RenormalizeLater ==
    /\ routine.referenceNow + MINUTES_PER_DAY < (MaxRequestDay + 1) * MINUTES_PER_DAY
    /\ routine' = [routine EXCEPT !.referenceNow = @ + MINUTES_PER_DAY,
                                  !.normalized = FALSE]
    /\ UNCHANGED << captures, calendar, nextEventId, now, lastReq, runs, gateway, search >>

RenormalizeNext == RenormalizeRequest \/ RenormalizeLater

SpecRenormalize == InitRenormalize /\ [][RenormalizeNext]_vars

\* C39: after every normalization of a sleep capture, also the re-normalization of the
\* persisted capture by a later request at a later reference day when no explicit target
\* time is stored, deadline_at is not earlier than window_start
C39_SleepDeadlineNotBeforeWindow ==
    (routine.normalized /\ isSleep(routine.capture)
        /\ routine.capture.window_start # NULL /\ routine.capture.deadline_at # NULL)
    => routine.capture.deadline_at >= routine.capture.window_start

\* ------------------------------------------------------------------------
\* Requests that look beyond the week the handler lists: an event of the user's own on
\* the evening of the ninth day, and capture 3 flexible, bound to a window of that
\* evening, or due at noon of the tenth day
FarDay == (SEARCH_DAYS + 1) * MINUTES_PER_DAY

FarEvent ==
    [id |-> 0, start |-> FarDay + 19 * 60, end |-> FarDay + 20 * 60, diaGuru |-> FALSE,
     capture_id |-> NULL, etag |-> 1]

HorizonVariants == { "flexible", "window", "deadline" }

HorizonCapture(id, variant) ==
    IF id # 3 THEN InitialCapture(id)
    ELSE CASE variant = "window" ->
                [BaseCapture(id) EXCEPT !.constraint_type = "window",
                                        !.constraint_time = FarDay + 19 * 60,
                                        !.constraint_end = FarDay + 20 * 60,
                                        !.window_start = FarDay + 19 * 60,
                                        !.window_end = FarDay + 20 * 60]
           [] variant = "deadline" ->
                [BaseCapture(id) EXCEPT !.constraint_type = "deadline_time",
                                        !.constraint_time = FarDay + MINUTES_PER_DAY + 12 * 60,
                                        !.deadline_at = FarDay + MINUTES_PER_DAY + 12 * 60]
           [] OTHER -> BaseCapture(id)

InitHorizon ==
    /\ \E variant \in HorizonVariants :
          captures = [ id \in CaptureIds |-> HorizonCapture(id, variant) ]
    /\ calendar = { ExternalEvent(3), FarEvent }
    /\ nextEventId = 2
    /\ now = 18 * 60
    /\ lastReq = IdleLog("none")
    /\ runs = [ r \in RunIds |-> IdleRun ]
    /\ gateway = IdleGateway
    /\ routine = IdleRoutine
    /\ search = IdleSearch

\* preferred starts: none, 19:00 today, 19:15 of the ninth day
HorizonStarts == { NULL, 19 * 60, FarDay + 19 * 60 + 15 }

HorizonSchedule ==
    \E captureId \in CaptureIds, start \in HorizonStarts,
       flags \in { PlainFlagsOfRequest, RebalanceWith("none") } :
        Serve(RequestBody(captureId, "schedule",
                          [preferredStart |-> start, preferredEnd |-> NULL], flags))

SpecHorizon == InitHorizon /\ [][HorizonSchedule]_vars

\* C40: every slot committed by a request ends within the horizon for which the request
\* loaded calendar events, [now, now + 7 days]; no commit is made on a slot whose
\* conflicts with calendar events were not checked
C40_CommitWithinHorizon ==
    /\ lastReq.committed =>
           /\ lastReq.slot.start >= now
           /\ lastReq.slot.end <= now + SEARCH_HORIZON_MINUTES
    /\ \A id \in lastReq.resched :
           captures[id].status = "scheduled" =>
               captures[id].planned_end <= now + SEARCH_HORIZON_MINUTES
====
